---- MODULE Spec2Model ----
(***************************************************************************)
(* Model of the v3 bot of src/src/arbitrage-bot.ts (lines 744-1669):       *)
(* ImprovedStrategy (position map, risk counters, evaluateTrade,           *)
(* recordBet, cleanupOldPositions, analyze) and ArbitrageBot.mainLoop.     *)
(*                                                                         *)
(* Units.  Time is epoch seconds (Date.now() is read at whole seconds, so  *)
(* a duration of n milliseconds is n / 1000 here).  Prices are hundredths  *)
(* (0.20 is 20).  confidence is tenths (0.3 is 3).  realProbability is     *)
(* 1/10000 (0.5 is 5000), edge and minEdgePercent are hundredths of a      *)
(* percentage point (5.0 % is 500), momentum, volatility and their         *)
(* threshold are hundredths of a percent (0.05 % is 5).  All arithmetic is *)
(* exact.  A nullable value is <<>> (null) or <<v>>.                       *)
(***************************************************************************)
EXTENDS Integers, Sequences, FiniteSets, TLC

VARIABLES
    now,                 \* Date.now(), epoch seconds
    config,              \* BotConfig with its StrategyConfig fields, fixed at construction
    positions,           \* ImprovedStrategy.positions: slug -> MarketPosition
    dailyLoss,           \* ImprovedStrategy.dailyLoss
    consecutiveLosses,   \* ImprovedStrategy.consecutiveLosses
    dailyLossResetTime,  \* ImprovedStrategy.dailyLossResetTime
    running,             \* ArbitrageBot.running
    currentSlug,         \* ArbitrageBot.currentSlug
    lastTradeTime,       \* ArbitrageBot.lastTradeTime
    stats,               \* ArbitrageBot.stats
    creds,               \* PolymarketService.creds is set
    pc,                  \* where the bot's coroutine is suspended
    order,               \* the order handed to placeBet, while it is in flight
    decision,            \* the TradeDecision of the last evaluation
    ledger,              \* history: the first slug the main loop recorded a bet for, and how many
                         \* bets it has recorded in each slot of that slug since
    call,                \* history: the last strategy method called and its arguments
    twin,                \* a second strategy, given the same calls, whose hedgeOnlyWhenLosing differs
    prices,              \* BinancePriceFeed.prices: the window of PricePoints
    reading,             \* history: what the last read of the window returned, and when
    analysis,            \* history: the last call of analyze, its inputs and its AnalysisResult
    ws,                  \* BinancePriceFeed.ws: the socket, with the promise of the connect() that made it
    reconnectAttempts,   \* BinancePriceFeed.reconnectAttempts
    timers,              \* the reconnects set with setTimeout that have not fired
    detached             \* the socket disconnect() closed and forgot, until its close event

vars == <<now, config, positions, dailyLoss, consecutiveLosses, dailyLossResetTime,
          running, currentSlug, lastTradeTime, stats, creds, pc, order,
          decision, ledger, call, twin, prices, reading, analysis,
          ws, reconnectAttempts, timers, detached>>

\* The feed's window and the histories of the feed's and the analysis' calls.
feedVars == <<prices, reading, analysis, ws, reconnectAttempts, timers, detached>>

\* The feed's connection.  The specifications of the loop, the strategy and
\* the window take the socket as given: they start and stay with these
\* variables as the constructor leaves them.
connVars == <<ws, reconnectAttempts, timers, detached>>

----------------------------------------------------------------------------
(* Bounds of the model *)

MaxPeriods == 1      \* 15-minute periods after the first instant that the clock covers
MaxDays == 1         \* whole days after the first instant that the clock covers
MaxBetsCap == 2      \* largest configured maxBetsPerMarket
MaxWindow == 10      \* PricePoints the feed's window is let grow to
MaxVaried == 3       \* window length up to which a tick's price is free; longer, it repeats the last
MaxRecorded == 3     \* calls of recordBet made on one strategy
MaxTicks == 1        \* PricePoints the window holds in the runs of the loop with the feed

(* Program constants *)

SecondsPerDay == 86400          \* 24 * 60 * 60 * 1000 ms
PeriodSeconds == 900            \* 15 * 60
SecondsPerHour == 3600
SecondsPerMinute == 60
MainBetSize == 15
HedgeBetSize == 7
MinEdgePercent == 500           \* 5.0 %
HedgePriceThreshold == 20       \* 0.20
CooldownSeconds == 60
NoTradeLastMinutes == 2
MaxDailyLoss == 50
MaxConsecutiveLosses == 5
MomentumThresholdPercent == 5   \* 0.05 %
VolatilityThreshold == 5        \* 0.05
BiasThreshold == 52             \* 0.52
HalfPrice == 50                 \* 0.5
BaseProbability == 5000         \* 0.5
ProbabilityPerConfidence == 350 \* 0.35 per 1.0 of confidence, i.e. 350/10000 per tenth
MaxProbability == 7500          \* 0.75
MinConfidence == 3              \* 0.3
MomentumConfidence == 3         \* += 0.3
TrendConfidence == 2            \* += 0.2
BiasConfidence == 1             \* += 0.1
VolatilityConfidence == 1       \* += 0.1
PriceUnit == 100                \* one price hundredth in realProbability units
WarmupSeconds == 60             \* sleep(60000)
SleepSeconds == 1               \* sleep(1000)
ErrorSleepSeconds == 5          \* sleep(5000)
RetentionSeconds == 600         \* timestamp - 600000
MomentumWindowSeconds == 60     \* momentumWindowSeconds
VolatilityWindowSeconds == 60   \* calculateVolatility(60)
ShortWindowSeconds == 30        \* calculateMomentum(30)
MediumWindowSeconds == 120      \* calculateMomentum(120)
MinMomentumPoints == 2          \* prices.length < 2
MinVolatilityPoints == 10       \* recentPrices.length < 10
Percent == 100                  \* * 100
MaxReconnectAttempts == 10      \* this.reconnectAttempts < 10

Null == <<>>
Some(v) == <<v>>

----------------------------------------------------------------------------
(* The clock.  Epoch0 is the start of the last period before a midnight     *)
(* (UTC); the instants the main loop is observed at are a few offsets into  *)
(* that period (its start, the end of the warm-up, one sleep later) and one *)
(* instant in each period that follows.                                     *)

Epoch0 == 19676 * SecondsPerDay - PeriodSeconds
Offsets == {0, 61, 62}
Instants ==
    { Epoch0 + o : o \in Offsets } \cup
    { Epoch0 + p * PeriodSeconds + WarmupSeconds + SleepSeconds : p \in 1..MaxPeriods }

Later(t, least) == { u \in Instants : u >= t + least }

----------------------------------------------------------------------------
(* MarketCalculator *)

\* timestamps that start at the hour, whatever the minute is
get15MinTimestamps_HourStart(t) ==
    LET hourStart == t - (t % SecondsPerHour)
    IN  [current |-> hourStart, next |-> hourStart + 15 * SecondsPerMinute]

\* get15MinTimestamps, with Math.floor(Date.now() / 1000) = t
get15MinTimestamps(t) ==
    LET minutes == (t % SecondsPerHour) \div SecondsPerMinute
        currentSlot == (minutes \div 15) * 15
        hourStart == t - (t % SecondsPerHour)
        currentTimestamp == hourStart + currentSlot * SecondsPerMinute
    IN  [current |-> currentTimestamp, next |-> currentTimestamp + 15 * SecondsPerMinute]

formatSlug(asset, timestamp) == asset \o "-updown-15m-" \o ToString(timestamp)

\* getTimeLeft: the string "<minutes>m <seconds>s", or the expired word.  The
\* string is kept as its parts: kind "left" with the two numbers printed in it,
\* kind "expired", and kind "empty" for the "" of a market that was not found.
getTimeLeft(endTimestamp, t) ==
    LET secondsLeft == endTimestamp + 15 * SecondsPerMinute - t
    IN  IF secondsLeft <= 0
        THEN [kind |-> "expired", minutes |-> 0, seconds |-> 0]
        ELSE [kind |-> "left", minutes |-> secondsLeft \div SecondsPerMinute,
              seconds |-> secondsLeft % SecondsPerMinute]

EmptyTimeLeft == [kind |-> "empty", minutes |-> 0, seconds |-> 0]

----------------------------------------------------------------------------
(* GammaApiClient / PolymarketService: the venue's answer is an input.      *)

Asset == "btc"
NoSlug == ""

\* What the two slug lookups of getCurrentMarket can answer: nothing at all,
\* the current period's market (found and active), or the next period's.
Lookups == {"none", "current", "next"}

\* Quotes <<upPrice, downPrice>> of a found market.
Quotes == { <<80, 20>>, <<79, 21>>, <<20, 80>> }

\* getCurrentMarket and getMarketBySlug: the Market15m returned, Null when
\* both lookups fail.  endTimestamp is the 10 digits that end the slug asked for.
getCurrentMarket(lookup, quote, tokens, t) ==
    LET ts == get15MinTimestamps(t)
        stamp == IF lookup = "current" THEN ts.current ELSE ts.next
    IN  IF lookup = "none" THEN Null
        ELSE Some([slug |-> formatSlug(Asset, stamp),
                   upTokenId |-> IF tokens THEN "up-token" ELSE "",
                   downTokenId |-> IF tokens THEN "down-token" ELSE "",
                   upPrice |-> quote[1], downPrice |-> quote[2],
                   endTimestamp |-> stamp])

marketBias(upPrice, downPrice) ==
    IF upPrice > BiasThreshold THEN "UP"
    ELSE IF downPrice > BiasThreshold THEN "DOWN"
    ELSE "NEUTRAL"

\* getMarketPrices
getMarketPrices(market, t) ==
    IF market = Null
    THEN [upPrice |-> HalfPrice, downPrice |-> HalfPrice, found |-> FALSE,
          timeLeft |-> EmptyTimeLeft, upTokenId |-> "", downTokenId |-> "",
          slug |-> NoSlug, marketBias |-> "NEUTRAL"]
    ELSE LET m == market[1]
         IN  [upPrice |-> m.upPrice, downPrice |-> m.downPrice, found |-> TRUE,
              timeLeft |-> getTimeLeft(m.endTimestamp, t),
              upTokenId |-> m.upTokenId, downTokenId |-> m.downTokenId,
              slug |-> m.slug, marketBias |-> marketBias(m.upPrice, m.downPrice)]

\* Every MarketPrices the service can return at time t.
MarketPricesAt(t) ==
    { getMarketPrices(getCurrentMarket(l, q, k, t), t) :
        l \in Lookups, q \in Quotes, k \in BOOLEAN }

----------------------------------------------------------------------------
(* BinancePriceFeed, as analyze reads it: the momentum over the configured  *)
(* window, the volatility over 60 s and the trend class are inputs.         *)

Momenta == { Null, Some(-6), Some(5), Some(6) }
Volatilities == { Null, Some(6) }
Trends == { "STRONG_UP", "STRONG_DOWN", "NEUTRAL" }

\* A window too short for calculateMomentum(60) is too short for the
\* calculateMomentum(120) of calculateTrend, whose class is then NEUTRAL.
FeedReadings ==
    { f \in [momentum : Momenta, volatility : Volatilities, trend : Trends] :
        f.momentum = Null => f.trend = "NEUTRAL" }

Abs(x) == IF x < 0 THEN -x ELSE x
Min(x, y) == IF x < y THEN x ELSE y
Max(x, y) == IF x > y THEN x ELSE y

----------------------------------------------------------------------------
(* ImprovedStrategy *)

\* The steps of analyze past its early return, each from what it reads.

\* 1: the direction the momentum gives
directionOf(momentum, threshold) ==
    IF Abs(momentum) > threshold THEN (IF momentum > 0 THEN "UP" ELSE "DOWN")
    ELSE "NEUTRAL"

\* confidence with the increments of the momentum and of the trend exchanged
confidenceOf_SwappedWeights(feed, marketPrices, direction) ==
    LET c1 == IF direction # "NEUTRAL" THEN TrendConfidence ELSE 0
        c2 == IF \/ feed.trend = "STRONG_UP" /\ direction = "UP"
                 \/ feed.trend = "STRONG_DOWN" /\ direction = "DOWN"
              THEN c1 + MomentumConfidence ELSE c1
        c3 == IF marketPrices.marketBias = direction /\ direction # "NEUTRAL"
              THEN c2 + BiasConfidence ELSE c2
    IN  IF feed.volatility # Null /\ feed.volatility[1] > VolatilityThreshold
        THEN c3 + VolatilityConfidence ELSE c3

\* confidence with a venue bias against the direction taken off again
confidenceOf_Penalty(feed, marketPrices, direction) ==
    LET c1 == IF direction # "NEUTRAL" THEN MomentumConfidence ELSE 0
        c2 == IF \/ feed.trend = "STRONG_UP" /\ direction = "UP"
                 \/ feed.trend = "STRONG_DOWN" /\ direction = "DOWN"
              THEN c1 + TrendConfidence ELSE c1
        c3 == IF marketPrices.marketBias = direction /\ direction # "NEUTRAL"
              THEN c2 + BiasConfidence
              ELSE IF marketPrices.marketBias # "NEUTRAL"
                      /\ marketPrices.marketBias # direction
              THEN c2 - BiasConfidence ELSE c2
    IN  IF feed.volatility # Null /\ feed.volatility[1] > VolatilityThreshold
        THEN c3 + VolatilityConfidence ELSE c3

\* 1-4: the confidence added up (direction is not NEUTRAL exactly when the
\* momentum is over the threshold)
confidenceOf(feed, marketPrices, direction) ==
    LET c1 == IF direction # "NEUTRAL" THEN MomentumConfidence ELSE 0
        c2 == IF \/ feed.trend = "STRONG_UP" /\ direction = "UP"
                 \/ feed.trend = "STRONG_DOWN" /\ direction = "DOWN"
              THEN c1 + TrendConfidence ELSE c1
        c3 == IF marketPrices.marketBias = direction /\ direction # "NEUTRAL"
              THEN c2 + BiasConfidence ELSE c2
    IN  IF feed.volatility # Null /\ feed.volatility[1] > VolatilityThreshold
        THEN c3 + VolatilityConfidence ELSE c3

\* the probability computed from the confidence whatever the direction
realProbabilityOf_AnyDirection(direction, confidence) ==
    Min(MaxProbability,
        Max(BaseProbability, BaseProbability + confidence * ProbabilityPerConfidence))

\* the final probability
realProbabilityOf(direction, confidence) ==
    IF direction # "NEUTRAL"
    THEN Min(MaxProbability,
             Max(BaseProbability, BaseProbability + confidence * ProbabilityPerConfidence))
    ELSE BaseProbability

marketProbOf(direction, marketPrices) ==
    IF direction = "UP" THEN marketPrices.upPrice
    ELSE IF direction = "DOWN" THEN marketPrices.downPrice
    ELSE HalfPrice

\* edge = (realProbability - marketProb) * 100
edgeOf(realProbability, marketProb) == realProbability - marketProb * PriceUnit

\* the decision with the found flag of the quote left out
shouldTradeOf_IgnoresFound(edge, direction, marketPrices, confidence, cfg) ==
    /\ edge >= cfg.minEdgePercent
    /\ direction # "NEUTRAL"
    /\ confidence >= MinConfidence

shouldTradeOf(edge, direction, marketPrices, confidence, cfg) ==
    /\ edge >= cfg.minEdgePercent
    /\ direction # "NEUTRAL"
    /\ marketPrices.found
    /\ confidence >= MinConfidence

\* the reason with the neutral direction tested before the market
reasonOf_NeutralFirst(edge, direction, marketPrices, confidence, cfg) ==
    IF direction = "NEUTRAL" THEN "momentum below threshold"
    ELSE IF ~marketPrices.found THEN "market not found"
    ELSE IF confidence < MinConfidence THEN "low confidence"
    ELSE IF edge < cfg.minEdgePercent THEN "edge below minimum"
    ELSE "signal"

reasonOf(edge, direction, marketPrices, confidence, cfg) ==
    IF ~marketPrices.found THEN "market not found"
    ELSE IF direction = "NEUTRAL" THEN "momentum below threshold"
    ELSE IF confidence < MinConfidence THEN "low confidence"
    ELSE IF edge < cfg.minEdgePercent THEN "edge below minimum"
    ELSE "signal"

\* analyze, from what the feed and the venue answered
analyze(feed, marketPrices, cfg) ==
    IF feed.momentum = Null
    THEN [direction |-> "NEUTRAL", confidence |-> 0, realProbability |-> BaseProbability,
          marketPrices |-> marketPrices, edge |-> 0, shouldTrade |-> FALSE,
          reason |-> "no data"]
    ELSE
    LET direction == directionOf(feed.momentum[1], cfg.momentumThresholdPercent)
        confidence == confidenceOf(feed, marketPrices, direction)
        realProbability == realProbabilityOf(direction, confidence)
        edge == edgeOf(realProbability, marketProbOf(direction, marketPrices))
    IN  [direction |-> direction, confidence |-> confidence,
         realProbability |-> realProbability, marketPrices |-> marketPrices,
         edge |-> edge,
         shouldTrade |-> shouldTradeOf(edge, direction, marketPrices, confidence, cfg),
         reason |-> reasonOf(edge, direction, marketPrices, confidence, cfg)]

\* Every AnalysisResult analyze can return at time t.
AnalysesAt(t, cfg) ==
    { analyze(f, m, cfg) : f \in FeedReadings, m \in MarketPricesAt(t) }

\* resetDailyStats counting 24 h from t itself instead of from midnight
resetDailyStats_FromNow(t) == t + SecondsPerDay

\* resetDailyStats: 24 h after the last midnight at or before t (the clock of
\* the model is in the zone of the process, taken to be UTC)
resetDailyStats(t) == (t - (t % SecondsPerDay)) + SecondsPerDay

\* The fields of an ImprovedStrategy as one value.
StrategyFields(p, dl, cl, rt) ==
    [positions |-> p, dailyLoss |-> dl, consecutiveLosses |-> cl, dailyLossResetTime |-> rt]

\* checkDailyReset clearing the consecutive-loss counter as well
checkDailyReset_BothCounters(st, t) ==
    IF t >= st.dailyLossResetTime
    THEN [st EXCEPT !.dailyLoss = 0, !.consecutiveLosses = 0,
                    !.dailyLossResetTime = resetDailyStats(t)]
    ELSE st

\* checkDailyReset at time t
checkDailyReset(st, t) ==
    IF t >= st.dailyLossResetTime
    THEN [st EXCEPT !.dailyLoss = 0, !.dailyLossResetTime = resetDailyStats(t)]
    ELSE st

\* parseTimeLeft, in seconds (the minutes it returns, times 60): the digits
\* before each of the two unit letters, 0 where the letter is absent.
parseTimeLeft(timeLeft) ==
    LET minutes == IF timeLeft.kind = "left" THEN timeLeft.minutes ELSE 0
        seconds == IF timeLeft.kind = "left" THEN timeLeft.seconds ELSE 0
    IN  minutes * SecondsPerMinute + seconds

\* a Position created as if its first bet were already counted
EmptyPosition_Counted(slug) ==
    [slug |-> slug, mainBet |-> Null, hedgeBet |-> Null, totalBets |-> 1]

\* position = { slug, mainBet: null, hedgeBet: null, totalBets: 0 }
EmptyPosition(slug) ==
    [slug |-> slug, mainBet |-> Null, hedgeBet |-> Null, totalBets |-> 0]

Skip(reason) ==
    [action |-> "SKIP", type |-> "NONE", direction |-> "NONE", size |-> 0, reason |-> reason]
Bet(type, direction, size) ==
    [action |-> "BET", type |-> type, direction |-> direction, size |-> size, reason |-> type]

Opposite(direction) == IF direction = "UP" THEN "DOWN" ELSE "UP"
PriceOf(marketPrices, direction) ==
    IF direction = "UP" THEN marketPrices.upPrice ELSE marketPrices.downPrice

\* The four guards of evaluateTrade and its two bets, in the order it tries them.
dailyLossBreaker(st, cfg) == st.dailyLoss >= cfg.maxDailyLoss

\* the breaker compared with > : the limit itself still trades
consecutiveLossBreaker_Strict(st, cfg) ==
    st.consecutiveLosses > cfg.maxConsecutiveLosses

consecutiveLossBreaker(st, cfg) == st.consecutiveLosses >= cfg.maxConsecutiveLosses

\* the cap compared with > : one bet more than the cap gets through
betLimitReached_Strict(position, cfg) == position.totalBets > cfg.maxBetsPerMarket

betLimitReached(position, cfg) == position.totalBets >= cfg.maxBetsPerMarket

tooLittleTime(a, cfg) ==
    parseTimeLeft(a.marketPrices.timeLeft) < cfg.noTradeLastMinutes * SecondsPerMinute

mainBetFires(position, a, cfg) ==
    /\ position.mainBet = Null
    /\ a.edge >= cfg.minEdgePercent
    /\ a.direction # "NEUTRAL"

\* the hedge with the threshold itself excluded
hedgeBetFires_Below(position, a, cfg) ==
    /\ cfg.enableHedging
    /\ position.mainBet # Null
    /\ position.hedgeBet = Null
    /\ PriceOf(a.marketPrices, Opposite(position.mainBet[1].direction))
          < cfg.hedgePriceThreshold

\* the hedge with hedgeOnlyWhenLosing wired in: under the flag, only when the
\* main bet's side is quoted below the price it was bought at
hedgeBetFires_OnlyWhenLosing(position, a, cfg) ==
    /\ cfg.enableHedging
    /\ position.mainBet # Null
    /\ position.hedgeBet = Null
    /\ PriceOf(a.marketPrices, Opposite(position.mainBet[1].direction))
          <= cfg.hedgePriceThreshold
    /\ cfg.hedgeOnlyWhenLosing =>
          PriceOf(a.marketPrices, position.mainBet[1].direction)
             < position.mainBet[1].price

hedgeBetFires(position, a, cfg) ==
    /\ cfg.enableHedging
    /\ position.mainBet # Null
    /\ position.hedgeBet = Null
    /\ PriceOf(a.marketPrices, Opposite(position.mainBet[1].direction))
          <= cfg.hedgePriceThreshold

\* evaluateTrade at time t: the strategy's fields afterwards and the decision
evaluateTrade(st, cfg, a, t) ==
    LET slug == a.marketPrices.slug
        s1 == checkDailyReset(st, t)
        s2 == IF slug \in DOMAIN s1.positions THEN s1
              ELSE [s1 EXCEPT !.positions = (slug :> EmptyPosition(slug)) @@ @]
        position == s2.positions[slug]
    IN  IF dailyLossBreaker(s1, cfg)
        THEN [st |-> s1, decision |-> Skip("daily loss limit")]
        ELSE IF consecutiveLossBreaker(s1, cfg)
        THEN [st |-> s1, decision |-> Skip("consecutive losses limit")]
        ELSE IF betLimitReached(position, cfg)
        THEN [st |-> s2, decision |-> Skip("market bet limit")]
        ELSE IF tooLittleTime(a, cfg)
        THEN [st |-> s2, decision |-> Skip("too little time")]
        ELSE IF mainBetFires(position, a, cfg)
        THEN [st |-> s2, decision |-> Bet("MAIN", a.direction, cfg.mainBetSize)]
        ELSE IF hedgeBetFires(position, a, cfg)
        THEN [st |-> s2, decision |-> Bet("HEDGE", Opposite(position.mainBet[1].direction),
                                          cfg.hedgeBetSize)]
        ELSE [st |-> s2, decision |-> Skip("no suitable conditions")]

\* recordBet leaving a slot that is filled as it is
recordBet_KeepFirst(st, slug, type, direction, price, size, t) ==
    LET position == IF slug \in DOMAIN st.positions THEN st.positions[slug]
                    ELSE EmptyPosition(slug)
        bet == [direction |-> direction, price |-> price, size |-> size, timestamp |-> t]
        filled == IF type = "MAIN"
                  THEN (IF position.mainBet = Null
                        THEN [position EXCEPT !.mainBet = Some(bet)] ELSE position)
                  ELSE (IF position.hedgeBet = Null
                        THEN [position EXCEPT !.hedgeBet = Some(bet)] ELSE position)
    IN  [st EXCEPT !.positions =
            (slug :> [filled EXCEPT !.totalBets = @ + 1]) @@ @]

\* recordBet that books the stake of the bet as a loss of the day
recordBet_StakeAsLoss(st, slug, type, direction, price, size, t) ==
    LET position == IF slug \in DOMAIN st.positions THEN st.positions[slug]
                    ELSE EmptyPosition(slug)
        bet == [direction |-> direction, price |-> price, size |-> size, timestamp |-> t]
        filled == IF type = "MAIN" THEN [position EXCEPT !.mainBet = Some(bet)]
                  ELSE [position EXCEPT !.hedgeBet = Some(bet)]
    IN  [st EXCEPT !.positions = (slug :> [filled EXCEPT !.totalBets = @ + 1]) @@ @,
                   !.dailyLoss = @ + size]

\* recordBet with the two slots confused: a MAIN bet lands in the hedge slot
recordBet_SwapSlots(st, slug, type, direction, price, size, t) ==
    LET position == IF slug \in DOMAIN st.positions THEN st.positions[slug]
                    ELSE EmptyPosition(slug)
        bet == [direction |-> direction, price |-> price, size |-> size, timestamp |-> t]
        filled == IF type = "MAIN" THEN [position EXCEPT !.hedgeBet = Some(bet)]
                  ELSE [position EXCEPT !.mainBet = Some(bet)]
    IN  [st EXCEPT !.positions =
            (slug :> [filled EXCEPT !.totalBets = @ + 1]) @@ @]

\* recordBet at time t
recordBet(st, slug, type, direction, price, size, t) ==
    LET position == IF slug \in DOMAIN st.positions THEN st.positions[slug]
                    ELSE EmptyPosition(slug)
        bet == [direction |-> direction, price |-> price, size |-> size, timestamp |-> t]
        filled == IF type = "MAIN" THEN [position EXCEPT !.mainBet = Some(bet)]
                  ELSE [position EXCEPT !.hedgeBet = Some(bet)]
    IN  [st EXCEPT !.positions =
            (slug :> [filled EXCEPT !.totalBets = @ + 1]) @@ @]

\* A number of the scenarios, kept as the exact fraction num / den (den > 0)
\* of the floating-point value the code computes.
Fraction(num, den) == [num |-> num, den |-> den]

\* calculateScenarios with the hedge's size left out of totalInvested
calculateScenarios_MainInvestedOnly(st, slug) ==
    IF slug \notin DOMAIN st.positions \/ st.positions[slug].mainBet = Null THEN Null
    ELSE LET main == st.positions[slug].mainBet[1]
             hedge == st.positions[slug].hedgeBet
             mainWinPayout == Fraction(main.size * PriceUnit, main.price)
             hedgeWinPayout == IF hedge # Null
                               THEN Fraction(hedge[1].size * PriceUnit, hedge[1].price)
                               ELSE Fraction(0, 1)
             totalInvested == main.size
             profit(payout) == Fraction(payout.num - totalInvested * payout.den, payout.den)
             roi(payout) == Fraction(profit(payout).num * Percent,
                                     profit(payout).den * totalInvested)
         IN  Some([ifMainWins |-> [payout |-> mainWinPayout,
                                   profit |-> profit(mainWinPayout),
                                   roi |-> roi(mainWinPayout)],
                   ifMainLoses |-> [payout |-> hedgeWinPayout,
                                    profit |-> profit(hedgeWinPayout),
                                    roi |-> IF hedgeWinPayout.num > 0
                                            THEN roi(hedgeWinPayout)
                                            ELSE Fraction(-Percent, 1)]])

\* calculateScenarios(slug, prices); a price of 0.30 is 30, so size / price is
\* size * 100 / 30
calculateScenarios(st, slug) ==
    IF slug \notin DOMAIN st.positions \/ st.positions[slug].mainBet = Null THEN Null
    ELSE LET main == st.positions[slug].mainBet[1]
             hedge == st.positions[slug].hedgeBet
             mainWinPayout == Fraction(main.size * PriceUnit, main.price)
             hedgeWinPayout == IF hedge # Null
                               THEN Fraction(hedge[1].size * PriceUnit, hedge[1].price)
                               ELSE Fraction(0, 1)
             totalInvested == main.size + (IF hedge # Null THEN hedge[1].size ELSE 0)
             profit(payout) == Fraction(payout.num - totalInvested * payout.den, payout.den)
             roi(payout) == Fraction(profit(payout).num * Percent,
                                     profit(payout).den * totalInvested)
         IN  Some([ifMainWins |-> [payout |-> mainWinPayout,
                                   profit |-> profit(mainWinPayout),
                                   roi |-> roi(mainWinPayout)],
                   ifMainLoses |-> [payout |-> hedgeWinPayout,
                                    profit |-> profit(hedgeWinPayout),
                                    roi |-> IF hedgeWinPayout.num > 0
                                            THEN roi(hedgeWinPayout)
                                            ELSE Fraction(-Percent, 1)]])

\* cleanupOldPositions deleting the current slug's Position with the others
cleanupOldPositions_DropAll(st, currentSlugArg) == [st EXCEPT !.positions = <<>>]

\* cleanupOldPositions
cleanupOldPositions(st, currentSlugArg) ==
    LET toDelete == { slug \in DOMAIN st.positions : slug # currentSlugArg }
    IN  [st EXCEPT !.positions = [slug \in (DOMAIN @) \ toDelete |-> @[slug]]]

----------------------------------------------------------------------------
(* Configuration: botConfig, with the fields the specifications vary.       *)

botConfig ==
    [momentumThresholdPercent |-> MomentumThresholdPercent,
     simulationMode |-> TRUE,
     minEdgePercent |-> MinEdgePercent,
     mainBetSize |-> MainBetSize,
     maxBetsPerMarket |-> 2,
     enableHedging |-> TRUE,
     hedgePriceThreshold |-> HedgePriceThreshold,
     hedgeBetSize |-> HedgeBetSize,
     hedgeOnlyWhenLosing |-> FALSE,
     cooldownSeconds |-> CooldownSeconds,
     noTradeLastMinutes |-> NoTradeLastMinutes,
     maxDailyLoss |-> MaxDailyLoss,
     maxConsecutiveLosses |-> MaxConsecutiveLosses]

\* <<enableHedging, simulationMode, noTradeLastMinutes>> of the main loop's runs
LoopModes == { <<TRUE, TRUE, NoTradeLastMinutes>>, <<TRUE, FALSE, NoTradeLastMinutes>>,
               <<FALSE, TRUE, 0>>, <<TRUE, FALSE, 0>> }
Configs ==
    { [botConfig EXCEPT !.maxBetsPerMarket = n, !.enableHedging = m[1],
                        !.simulationMode = m[2], !.noTradeLastMinutes = m[3]] :
        n \in 0..MaxBetsCap, m \in LoopModes }

----------------------------------------------------------------------------
(* ArbitrageBot: start, mainLoop, stop.  The coroutine is suspended at an   *)
(* await; what runs between two awaits is one action.                       *)

Strategy == StrategyFields(positions, dailyLoss, consecutiveLosses, dailyLossResetTime)

SetStrategy(st) ==
    /\ positions' = st.positions
    /\ dailyLoss' = st.dailyLoss
    /\ consecutiveLosses' = st.consecutiveLosses
    /\ dailyLossResetTime' = st.dailyLossResetTime

NoStats == [trades |-> 0, opportunities |-> 0, mainBets |-> 0, hedgeBets |-> 0]

\* The ledger after a bet of the given type was recorded for slug.
Counted(l, slug, type) ==
    LET c == IF l = Null THEN [slug |-> slug, main |-> 0, hedge |-> 0] ELSE l[1]
    IN  IF c.slug # slug THEN l
        ELSE Some(IF type = "MAIN" THEN [c EXCEPT !.main = @ + 1]
                  ELSE [c EXCEPT !.hedge = @ + 1])

Init ==
    /\ now = Epoch0
    /\ config \in Configs
    /\ positions = <<>>
    /\ dailyLoss = 0
    /\ consecutiveLosses = 0
    /\ dailyLossResetTime = resetDailyStats(now)
    /\ running = FALSE
    /\ currentSlug = ""
    /\ lastTradeTime = 0
    /\ stats = NoStats
    /\ creds \in (IF config.simulationMode THEN {TRUE} ELSE BOOLEAN)
    /\ pc = "start"
    /\ order = Null
    /\ decision = Null
    /\ ledger = Null
    /\ call = Null
    /\ twin = Null
    /\ prices = <<>>
    /\ reading = Null
    /\ analysis = Null
    /\ ws = Null
    /\ reconnectAttempts = 0
    /\ timers = 0
    /\ detached = Null

\* start: connect, initialize and the warm-up sleep are over; the loop begins
Start ==
    /\ pc = "start"
    /\ now' \in Later(now, WarmupSeconds)
    /\ running' = TRUE
    /\ pc' = "loop"
    /\ UNCHANGED <<config, positions, dailyLoss, consecutiveLosses, dailyLossResetTime,
                   currentSlug, lastTradeTime, stats, creds, order, decision,
                   ledger, call, twin>>
    /\ UNCHANGED feedVars

\* the condition of while (this.running)
loopContinues(flag) == flag

\* while (this.running)
LoopTop ==
    /\ pc = "loop"
    /\ pc' = IF loopContinues(running) THEN "analyze" ELSE "done"
    /\ UNCHANGED <<now, config, positions, dailyLoss, consecutiveLosses, dailyLossResetTime,
                   running, currentSlug, lastTradeTime, stats, creds, order, decision,
                   ledger, call, twin>>
    /\ UNCHANGED feedVars

\* What analyze returns to the main loop at time t: the feed is short of
\* data, flat, or moving either way with the trend; the venue quotes an even
\* or a one-sided market.
LoopReadings ==
    { [momentum |-> Null, volatility |-> Null, trend |-> "NEUTRAL"],
      [momentum |-> Some(5), volatility |-> Null, trend |-> "NEUTRAL"],
      [momentum |-> Some(6), volatility |-> Some(6), trend |-> "STRONG_UP"],
      [momentum |-> Some(-6), volatility |-> Some(6), trend |-> "STRONG_DOWN"] }
LoopQuotes == { <<80, 20>>, <<20, 80>> }
LoopAnalysesAt(t, cfg) ==
    { analyze(f, getMarketPrices(getCurrentMarket(l, q, k, t), t), cfg) :
        f \in LoopReadings, l \in Lookups, q \in LoopQuotes, k \in BOOLEAN }

\* mainLoop's cleanup when the slug of the analysis is not the one of the
\* iteration before
LoopCleanup(st, slug) ==
    IF currentSlug # "" /\ currentSlug # slug THEN cleanupOldPositions(st, slug) ELSE st

\* the test before placeBet, with simulationMode not looked at
submitsOrder_IgnoresMode(cfg, tokenId) == tokenId # ""

\* if (!this.config.simulationMode && tokenId)
submitsOrder(cfg, tokenId) == ~cfg.simulationMode /\ tokenId # ""

\* placeBet started and not awaited: the iteration goes on to its sleep
awaitingSubmission_NotAwaited == "sleep"

\* where the coroutine is during await this.polymarket.placeBet(...)
awaitingSubmission == "placeBet"

\* the cooldown test with the milliseconds not divided by 1000
coolingDown_Milliseconds(t, last, cfg) ==
    /\ last > 0
    /\ (t - last) * 1000 < cfg.cooldownSeconds

\* (now - this.lastTradeTime) / 1000 < cooldownSeconds && this.lastTradeTime > 0
coolingDown(t, last, cfg) ==
    /\ (t - last) < cfg.cooldownSeconds
    /\ last > 0

\* the price handed to placeBet without the cap
orderPrice_Uncapped(price) == price + 1

\* Math.min(price + 0.01, 0.95)
orderPrice(price) == Min(price + 1, 95)

\* The body of one iteration, from the return of analyze to the next await:
\* the sleep of a cycle without an order, or the placeBet of a cycle with one.
CycleBody(a) ==
    /\ pc = "analyze"
    /\ \E st1 \in { LoopCleanup(Strategy, a.marketPrices.slug) } :
       \E r \in { evaluateTrade(st1, config, a, now) } :
        LET mp == a.marketPrices
            slug == mp.slug
            cooling == coolingDown(now, lastTradeTime, config)
            d == r.decision
            betting == d.action = "BET" /\ d.size # 0
            tokenId == IF d.direction = "UP" THEN mp.upTokenId ELSE mp.downTokenId
            price == PriceOf(mp, d.direction)
        IN  /\ currentSlug' = slug
            /\ IF cooling
               THEN /\ SetStrategy(st1)
                    /\ pc' = "sleep"
                    /\ UNCHANGED <<stats, order, decision, ledger>>
               ELSE /\ decision' = Some(d)
                    /\ IF betting
                       THEN /\ SetStrategy(recordBet(r.st, slug, d.type, d.direction,
                                                     price, d.size, now))
                            /\ ledger' = Counted(ledger, slug, d.type)
                            /\ stats' = [stats EXCEPT
                                   !.opportunities = @ + 1,
                                   !.mainBets = IF d.type = "MAIN" THEN @ + 1 ELSE @,
                                   !.hedgeBets = IF d.type = "MAIN" THEN @ ELSE @ + 1]
                            /\ IF submitsOrder(config, tokenId)
                               THEN /\ pc' = awaitingSubmission
                                    /\ order' = Some([tokenId |-> tokenId,
                                                      price |-> orderPrice(price),
                                                      side |-> "BUY",
                                                      size |-> d.size])
                               ELSE /\ pc' = "sleep"
                                    /\ order' = Null
                       ELSE /\ SetStrategy(r.st)
                            /\ pc' = "sleep"
                            /\ UNCHANGED <<stats, order, ledger>>
    /\ UNCHANGED <<now, config, running, lastTradeTime, creds, twin>>
    /\ UNCHANGED feedVars

\* One iteration of mainLoop.
Cycle(a) ==
    /\ CycleBody(a)
    /\ UNCHANGED call

\* placeBet resolves: the order was posted
PlaceBetReturn ==
    /\ pc = "placeBet"
    /\ creds
    /\ now' \in Later(now, 0)
    /\ stats' = [stats EXCEPT !.trades = @ + 1]
    /\ lastTradeTime' = now'
    /\ order' = Null
    /\ pc' = "sleep"
    /\ UNCHANGED <<config, positions, dailyLoss, consecutiveLosses, dailyLossResetTime,
                   running, currentSlug, creds, decision, ledger, call,
                   twin>>
    /\ UNCHANGED feedVars

\* the exception of a cycle left uncaught: mainLoop is over
afterCatch_Uncaught == "done"

\* where the coroutine is once catch (error) has run: in sleep(5000)
afterCatch == "sleepError"

\* placeBet throws (no API key, or the client's request fails): the catch
\* block of the loop logs and sleeps 5 s
PlaceBetThrow ==
    /\ pc = "placeBet"
    /\ now' \in Later(now, 0)
    /\ order' = Null
    /\ pc' = afterCatch
    /\ UNCHANGED <<config, positions, dailyLoss, consecutiveLosses, dailyLossResetTime,
                   running, currentSlug, lastTradeTime, stats, creds, decision,
                   ledger, call, twin>>
    /\ UNCHANGED feedVars

\* sleep(1000) or sleep(5000) is over
SleepDone ==
    /\ pc \in {"sleep", "sleepError"}
    /\ now' \in Later(now, IF pc = "sleep" THEN SleepSeconds ELSE ErrorSleepSeconds)
    /\ pc' = "loop"
    /\ decision' = Null
    /\ UNCHANGED <<config, positions, dailyLoss, consecutiveLosses, dailyLossResetTime,
                   running, currentSlug, lastTradeTime, stats, creds, order,
                   ledger, call, twin>>
    /\ UNCHANGED feedVars

\* SIGINT: stop, then process.exit(0)
Stop ==
    /\ running
    /\ running' = FALSE
    /\ pc' = "exited"
    /\ UNCHANGED <<now, config, positions, dailyLoss, consecutiveLosses, dailyLossResetTime,
                   currentSlug, lastTradeTime, stats, creds, order, decision,
                   ledger, call, twin>>
    /\ UNCHANGED feedVars

Next ==
    \/ Start
    \/ LoopTop
    \/ \E a \in LoopAnalysesAt(now, config) : Cycle(a)
    \/ PlaceBetReturn
    \/ PlaceBetThrow
    \/ SleepDone
    \/ Stop

Spec == Init /\ [][Next]_vars

\* The main loop under the scheduling of the runtime: a timer that is set
\* fires and resumes the coroutine, which then evaluates the loop's condition.
SpecLive ==
    /\ Init
    /\ [][Next]_vars
    /\ WF_vars(SleepDone)
    /\ WF_vars(LoopTop)

----------------------------------------------------------------------------
(* The strategy's methods called one at a time, as the main loop calls      *)
(* them, on a strategy whose risk counters hold any value: nothing in the   *)
(* repository writes dailyLoss or consecutiveLosses except the daily reset, *)
(* so the values a settlement step would leave there are drawn at the       *)
(* start.  A second strategy, twin, receives the same calls under a         *)
(* configuration that differs only in hedgeOnlyWhenLosing.                  *)

\* An instant early in the first period, one after the midnight that follows,
\* in the last two minutes of its period, and the same time on later days.
UnitInstants ==
    { Epoch0 + 61 } \cup
    { Epoch0 + PeriodSeconds + 781 + d * SecondsPerDay : d \in 0..MaxDays }

UnitReadings ==
    LoopReadings \cup { [momentum |-> Some(6), volatility |-> Null, trend |-> "NEUTRAL"] }

UnitAnalysesAt(t, cfg) ==
    { analyze(f, getMarketPrices(getCurrentMarket(l, q, TRUE, t), t), cfg) :
        f \in UnitReadings, l \in {"none", "current"}, q \in Quotes }

\* <<dailyLoss, consecutiveLosses>> at the start
UnitLosses == { <<0, 0>>, <<10, MaxConsecutiveLosses>>, <<MaxDailyLoss, 2>>,
                <<MaxDailyLoss, MaxConsecutiveLosses>> }

\* <<enableHedging, noTradeLastMinutes>>
UnitModes == { <<TRUE, NoTradeLastMinutes>>, <<TRUE, 0>>, <<FALSE, 0>> }
UnitConfigs ==
    { [botConfig EXCEPT !.maxBetsPerMarket = n, !.enableHedging = m[1],
                        !.noTradeLastMinutes = m[2]] :
        n \in 0..MaxBetsCap, m \in UnitModes }

TwinConfig == [config EXCEPT !.hedgeOnlyWhenLosing = ~@]

\* The last call: the method, the slug it was about and the MarketPrices it read.
Called(op, slug, mp) == Some([op |-> op, slug |-> slug, marketPrices |-> mp])

\* The last call was evaluateTrade(a): the fields of a that it destructures.
CalledEvaluate(a) ==
    Some([op |-> "evaluateTrade", slug |-> a.marketPrices.slug,
          marketPrices |-> Some(a.marketPrices), direction |-> a.direction,
          edge |-> a.edge, confidence |-> a.confidence])

\* The last call was cleanupOldPositions(slug) on a map with these keys.
CalledCleanup(slug, keys) ==
    Some([op |-> "cleanupOldPositions", slug |-> slug, marketPrices |-> Null,
          keys |-> keys])

UnitInit ==
    /\ now = Epoch0 + 61
    /\ config \in UnitConfigs
    /\ positions = <<>>
    /\ \E l \in UnitLosses : dailyLoss = l[1] /\ consecutiveLosses = l[2]
    /\ dailyLossResetTime = resetDailyStats(now)
    /\ twin = [st |-> StrategyFields(positions, dailyLoss, consecutiveLosses,
                                     dailyLossResetTime),
               decision |-> Null]
    /\ decision = Null
    /\ call = Null
    /\ running = FALSE
    /\ currentSlug = ""
    /\ lastTradeTime = 0
    /\ stats = NoStats
    /\ creds = TRUE
    /\ pc = "unit"
    /\ order = Null
    /\ ledger = Null
    /\ prices = <<>>
    /\ reading = Null
    /\ analysis = Null
    /\ ws = Null
    /\ reconnectAttempts = 0
    /\ timers = 0
    /\ detached = Null

\* evaluateTrade(a)
UnitEvaluateTrade(a) ==
    /\ \E r \in { evaluateTrade(Strategy, config, a, now) } :
        /\ SetStrategy(r.st)
        /\ decision' = Some(r.decision)
    /\ \E r \in { evaluateTrade(twin.st, TwinConfig, a, now) } :
        twin' = [st |-> r.st, decision |-> Some(r.decision)]
    /\ call' = CalledEvaluate(a)
    /\ UNCHANGED <<now, config, running, currentSlug, lastTradeTime, stats, creds, pc,
                   order, ledger>>
    /\ UNCHANGED feedVars

\* The recordBet that the main loop makes of a BET decision.
Recorded(st, d, mp, t) ==
    IF d # Null /\ d[1].action = "BET" /\ d[1].size # 0
    THEN recordBet(st, mp.slug, d[1].type, d[1].direction,
                   PriceOf(mp, d[1].direction), d[1].size, t)
    ELSE st

UnitRecordBet ==
    /\ call # Null
    /\ call[1].op = "evaluateTrade"
    /\ decision[1].action = "BET"
    /\ SetStrategy(Recorded(Strategy, decision, call[1].marketPrices[1], now))
    /\ twin' = [st |-> Recorded(twin.st, twin.decision, call[1].marketPrices[1], now),
                decision |-> Null]
    /\ decision' = Null
    /\ call' = Called("recordBet", call[1].slug, call[1].marketPrices)
    /\ UNCHANGED <<now, config, running, currentSlug, lastTradeTime, stats, creds, pc,
                   order, ledger>>
    /\ UNCHANGED feedVars

\* cleanupOldPositions(slug)
UnitCleanup(slug) ==
    /\ SetStrategy(cleanupOldPositions(Strategy, slug))
    /\ twin' = [st |-> cleanupOldPositions(twin.st, slug), decision |-> Null]
    /\ decision' = Null
    /\ call' = CalledCleanup(slug, DOMAIN positions)
    /\ UNCHANGED <<now, config, running, currentSlug, lastTradeTime, stats, creds, pc,
                   order, ledger>>
    /\ UNCHANGED feedVars

\* Time passes between two calls, once the Positions of all markets but one
\* are gone (the main loop cleans the map up when the market changes).
UnitTick ==
    /\ Cardinality(DOMAIN positions) <= 1
    /\ \E t \in UnitInstants : t > now /\ now' = t
    /\ decision' = Null
    /\ call' = Null
    /\ twin' = [twin EXCEPT !.decision = Null]
    /\ UNCHANGED <<config, positions, dailyLoss, consecutiveLosses, dailyLossResetTime,
                   running, currentSlug, lastTradeTime, stats, creds, pc, order, ledger>>
    /\ UNCHANGED feedVars

\* The slugs a cleanup is asked to keep: the one of the market now, or none.
UnitSlugsAt(t) == { NoSlug, formatSlug(Asset, get15MinTimestamps(t).current) }

UnitNext ==
    \/ \E a \in UnitAnalysesAt(now, config) : UnitEvaluateTrade(a)
    \/ UnitRecordBet
    \/ \E slug \in UnitSlugsAt(now) : UnitCleanup(slug)
    \/ UnitTick

SpecUnit == UnitInit /\ [][UnitNext]_vars

----------------------------------------------------------------------------
(* BinancePriceFeed: the window of PricePoints, its message handler and its *)
(* reads.  A price is a positive whole number.  A momentum is the exact     *)
(* fraction [num, den] (den > 0) of the percentage the code computes in     *)
(* floating point; a volatility is the square of that percentage, as the    *)
(* fraction of 10000 * variance over the squared mean.                      *)

PricePoint(t, price) == [timestamp |-> t, price |-> price]

\* the message handler keeping the PricePoint that is exactly 10 minutes old
onMessage_Inclusive(window, price, t) ==
    LET pushed == Append(window, PricePoint(t, price))
        cutoff == t - RetentionSeconds
    IN  SelectSeq(pushed, LAMBDA p : p.timestamp >= cutoff)

\* ws.on("message"): a trade at price, handled at time t
onMessage(window, price, t) ==
    LET pushed == Append(window, PricePoint(t, price))
        cutoff == t - RetentionSeconds
    IN  SelectSeq(pushed, LAMBDA p : p.timestamp > cutoff)

getCurrentPrice(window) ==
    IF Len(window) = 0 THEN Null ELSE Some(window[Len(window)].price)

\* the momentum measured from the earliest PricePoint at or before the cutoff
calculateMomentum_Earliest(window, windowSeconds, t) ==
    IF Len(window) < MinMomentumPoints THEN Null
    ELSE LET cutoff == t - windowSeconds
             pastPrices == SelectSeq(window, LAMBDA p : p.timestamp <= cutoff)
         IN  IF Len(pastPrices) = 0 THEN Null
             ELSE LET pastPrice == pastPrices[1].price
                      currentPrice == window[Len(window)].price
                  IN  Some([num |-> (currentPrice - pastPrice) * Percent,
                            den |-> pastPrice])

\* the momentum as the ratio of the two prices, the subtraction forgotten
calculateMomentum_Ratio(window, windowSeconds, t) ==
    IF Len(window) < MinMomentumPoints THEN Null
    ELSE LET cutoff == t - windowSeconds
             pastPrices == SelectSeq(window, LAMBDA p : p.timestamp <= cutoff)
         IN  IF Len(pastPrices) = 0 THEN Null
             ELSE LET pastPrice == pastPrices[Len(pastPrices)].price
                      currentPrice == window[Len(window)].price
                  IN  Some([num |-> currentPrice * Percent, den |-> pastPrice])

\* calculateMomentum(windowSeconds) at time t
calculateMomentum(window, windowSeconds, t) ==
    IF Len(window) < MinMomentumPoints THEN Null
    ELSE LET cutoff == t - windowSeconds
             pastPrices == SelectSeq(window, LAMBDA p : p.timestamp <= cutoff)
         IN  IF Len(pastPrices) = 0 THEN Null
             ELSE LET pastPrice == pastPrices[Len(pastPrices)].price
                      currentPrice == window[Len(window)].price
                  IN  Some([num |-> (currentPrice - pastPrice) * Percent,
                            den |-> pastPrice])

RECURSIVE SumOf(_, _)
\* prices.reduce((a, b) => a + b, 0), of the first n prices
SumOf(window, n) == IF n = 0 THEN 0 ELSE SumOf(window, n - 1) + window[n].price

RECURSIVE SumOfSquares(_, _)
SumOfSquares(window, n) ==
    IF n = 0 THEN 0 ELSE SumOfSquares(window, n - 1) + window[n].price * window[n].price

\* calculateVolatility(windowSeconds) at time t.  With n prices of sum S and
\* sum of squares Q, (sqrt(variance) / mean * 100)^2 = 10000 * (n*Q - S*S) / (S*S).
calculateVolatility(window, windowSeconds, t) ==
    LET cutoff == t - windowSeconds
        recentPrices == SelectSeq(window, LAMBDA p : p.timestamp > cutoff)
        n == Len(recentPrices)
    IN  IF n < MinVolatilityPoints THEN Null
        ELSE LET S == SumOf(recentPrices, n)
                 Q == SumOfSquares(recentPrices, n)
             IN  Some([sqNum |-> (n * Q - S * S) * Percent * Percent, sqDen |-> S * S])

\* the class of calculateTrend with a null medium momentum compared as JavaScript
\* compares null with 0, the null test left out
trendDirection_NullAsFlat(short, medium) ==
    LET s == IF short = Null THEN 0 ELSE short[1].num
        m == IF medium = Null THEN 0 ELSE medium[1].num
    IN  IF s > 0 /\ m > 0 THEN "STRONG_UP"
        ELSE IF s < 0 /\ m < 0 THEN "STRONG_DOWN"
        ELSE IF s > 0 THEN "WEAK_UP"
        ELSE IF s < 0 THEN "WEAK_DOWN"
        ELSE "NEUTRAL"

\* the class calculateTrend gives two momenta (the sign of a fraction is the
\* sign of its numerator)
trendDirection(short, medium) ==
    IF short # Null /\ medium # Null
    THEN LET s == short[1].num
             m == medium[1].num
         IN  IF s > 0 /\ m > 0 THEN "STRONG_UP"
             ELSE IF s < 0 /\ m < 0 THEN "STRONG_DOWN"
             ELSE IF s > 0 THEN "WEAK_UP"
             ELSE IF s < 0 THEN "WEAK_DOWN"
             ELSE "NEUTRAL"
    ELSE "NEUTRAL"

\* calculateTrend() at time t
calculateTrend(window, t) ==
    LET short == calculateMomentum(window, ShortWindowSeconds, t)
        medium == calculateMomentum(window, MediumWindowSeconds, t)
    IN  [short |-> short, medium |-> medium, direction |-> trendDirection(short, medium)]

\* The instants at which the feed is observed: the first tick, a second later,
\* a short and a medium window later, and the retention time later.
FeedInstants ==
    { Epoch0 + o : o \in {0, 1, ShortWindowSeconds, MediumWindowSeconds, RetentionSeconds} }

Prices == {100, 101, 102}

\* The prices a trade can come at: any, or the last price again once the
\* window is MaxVaried long.
TickPrices(window) ==
    IF Len(window) < MaxVaried THEN Prices ELSE { window[Len(window)].price }

FeedInit ==
    /\ now = Epoch0
    /\ config = botConfig
    /\ positions = <<>>
    /\ dailyLoss = 0
    /\ consecutiveLosses = 0
    /\ dailyLossResetTime = resetDailyStats(now)
    /\ running = FALSE
    /\ currentSlug = ""
    /\ lastTradeTime = 0
    /\ stats = NoStats
    /\ creds = TRUE
    /\ pc = "feed"
    /\ order = Null
    /\ decision = Null
    /\ ledger = Null
    /\ call = Null
    /\ twin = Null
    /\ prices = <<>>
    /\ reading = Null
    /\ analysis = Null
    /\ ws = Null
    /\ reconnectAttempts = 0
    /\ timers = 0
    /\ detached = Null

\* A trade message arrives and is handled.
FeedMessage(price) ==
    /\ Len(prices) < MaxWindow
    /\ prices' = onMessage(prices, price, now)
    /\ call' = Some([op |-> "message", price |-> price, before |-> Len(prices)])
    /\ reading' = Null
    /\ UNCHANGED <<now, config, positions, dailyLoss, consecutiveLosses,
                   dailyLossResetTime, running, currentSlug, lastTradeTime, stats,
                   creds, pc, order, decision, ledger, twin, analysis>>
    /\ UNCHANGED connVars

\* Time passes without a message.
FeedWait ==
    /\ \E t \in FeedInstants : t > now /\ now' = t
    /\ call' = Null
    /\ reading' = Null
    /\ UNCHANGED <<config, positions, dailyLoss, consecutiveLosses,
                   dailyLossResetTime, running, currentSlug, lastTradeTime, stats,
                   creds, pc, order, decision, ledger, twin, prices, analysis>>
    /\ UNCHANGED connVars

\* analyze reads the window: getCurrentPrice, calculateMomentum,
\* calculateVolatility, calculateTrend.
FeedRead ==
    /\ reading' = Some([at |-> now,
                        price |-> getCurrentPrice(prices),
                        momentum |-> calculateMomentum(prices, MomentumWindowSeconds, now),
                        volatility |-> calculateVolatility(prices, VolatilityWindowSeconds, now),
                        trend |-> calculateTrend(prices, now)])
    /\ call' = Some([op |-> "read", price |-> 0, before |-> Len(prices)])
    /\ UNCHANGED <<now, config, positions, dailyLoss, consecutiveLosses,
                   dailyLossResetTime, running, currentSlug, lastTradeTime, stats,
                   creds, pc, order, decision, ledger, twin, prices, analysis>>
    /\ UNCHANGED connVars

FeedNext ==
    \/ \E price \in TickPrices(prices) : FeedMessage(price)
    \/ FeedWait
    \/ FeedRead

SpecFeed == FeedInit /\ [][FeedNext]_vars

----------------------------------------------------------------------------
(* ArbitrageBot.mainLoop and the feed's message handler together.           *)

\* The main loop of a bot that places real orders, with the feed's message
\* handler running between the steps of the coroutine (the handler is a
\* callback of the same thread: it runs whenever the coroutine is suspended).
LoopFeedInit ==
    /\ Init
    /\ ~config.simulationMode
    /\ config.maxBetsPerMarket = MaxBetsCap
    /\ config.noTradeLastMinutes = NoTradeLastMinutes

\* A trade message is handled while the coroutine is suspended at pc.
LoopTick(price) ==
    /\ pc # "exited"
    /\ Len(prices) < MaxTicks
    /\ prices' = onMessage(prices, price, now)
    /\ call' = Some([op |-> "message", price |-> price, during |-> pc])
    /\ UNCHANGED <<now, config, positions, dailyLoss, consecutiveLosses,
                   dailyLossResetTime, running, currentSlug, lastTradeTime, stats,
                   creds, pc, order, decision, ledger, twin, reading, analysis>>
    /\ UNCHANGED connVars

LoopFeedNext ==
    \/ Next
    \/ LoopTick(100)

SpecLoopFeed == LoopFeedInit /\ [][LoopFeedNext]_vars

----------------------------------------------------------------------------
(* The message handler from the frame it receives: JSON.parse, the read of  *)
(* the field p, parseFloat, and the try block around them.  A frame is      *)
(* text that is not JSON, the JSON null, or a JSON object whose field p is  *)
(* absent or a string.                                                      *)

\* NaN, which is the price of no trade
NaN == -1

\* the decimal strings of the prices
Numerals == ("100" :> 100) @@ ("101" :> 101)

\* parseFloat of the field p (undefined when absent)
parseFloat(p) ==
    IF p = Null THEN NaN
    ELSE IF p[1] \in DOMAIN Numerals THEN Numerals[p[1]]
    ELSE NaN

Frames ==
    { [json |-> "invalid", p |-> Null], [json |-> "null", p |-> Null],
      [json |-> "object", p |-> Null], [json |-> "object", p |-> Some("abc")],
      [json |-> "object", p |-> Some("100")], [json |-> "object", p |-> Some("101")] }

\* JSON.parse(data.toString()) or trade.p throws
throwsInHandler(frame) == frame.json \in {"invalid", "null"}

\* ws.on("message"), from the frame: what throws inside try is swallowed by
\* catch (e) {} and leaves the window as it was
handleMessage(window, frame, t) ==
    IF throwsInHandler(frame) THEN window
    ELSE onMessage(window, parseFloat(frame.p), t)

IngestInit ==
    /\ now = Epoch0
    /\ config = botConfig
    /\ positions = <<>>
    /\ dailyLoss = 0
    /\ consecutiveLosses = 0
    /\ dailyLossResetTime = resetDailyStats(now)
    /\ running = FALSE
    /\ currentSlug = ""
    /\ lastTradeTime = 0
    /\ stats = NoStats
    /\ creds = TRUE
    /\ pc = "ingest"
    /\ order = Null
    /\ decision = Null
    /\ ledger = Null
    /\ call = Null
    /\ twin = Null
    /\ prices = <<>>
    /\ reading = Null
    /\ analysis = Null
    /\ ws = Null
    /\ reconnectAttempts = 0
    /\ timers = 0
    /\ detached = Null

\* A frame arrives and is handled.
IngestMessage(frame) ==
    /\ Len(prices) < MaxVaried
    /\ prices' = handleMessage(prices, frame, now)
    /\ call' = Some([op |-> "frame", frame |-> frame, before |-> prices])
    /\ UNCHANGED <<now, config, positions, dailyLoss, consecutiveLosses,
                   dailyLossResetTime, running, currentSlug, lastTradeTime, stats,
                   creds, pc, order, decision, ledger, twin, reading, analysis>>
    /\ UNCHANGED connVars

\* Time passes without a frame.
IngestWait ==
    /\ \E t \in FeedInstants : t > now /\ now' = t
    /\ call' = Null
    /\ UNCHANGED <<config, positions, dailyLoss, consecutiveLosses,
                   dailyLossResetTime, running, currentSlug, lastTradeTime, stats,
                   creds, pc, order, decision, ledger, twin, prices, reading, analysis>>
    /\ UNCHANGED connVars

IngestNext ==
    \/ \E frame \in Frames : IngestMessage(frame)
    \/ IngestWait

SpecIngest == IngestInit /\ [][IngestNext]_vars

----------------------------------------------------------------------------
(* BinancePriceFeed.connect: the socket, its open, error and close events   *)
(* and the reconnect timer.  Each connect() makes a socket and a promise    *)
(* that the socket's open resolves and its error rejects; start awaits the  *)
(* promise of the first connect(), nobody holds the promise of a connect()  *)
(* made by the timer.  The history call counts the closes since the last    *)
(* open (or since the start) and the reconnects made since.                 *)

Socket(readyState, promise, awaited) ==
    Some([readyState |-> readyState, promise |-> promise, awaited |-> awaited])

Connection(op, closes, reconnects) ==
    Some([op |-> op, closes |-> closes, reconnects |-> reconnects])

\* the reconnect test of the close handler, one attempt short
mayReconnect_OneShort(attempts) == attempts < MaxReconnectAttempts - 1

\* if (this.reconnectAttempts < 10)
mayReconnect(attempts) == attempts < MaxReconnectAttempts

ConnectInit ==
    /\ now = Epoch0
    /\ config = botConfig
    /\ positions = <<>>
    /\ dailyLoss = 0
    /\ consecutiveLosses = 0
    /\ dailyLossResetTime = resetDailyStats(now)
    /\ running = FALSE
    /\ currentSlug = ""
    /\ lastTradeTime = 0
    /\ stats = NoStats
    /\ creds = TRUE
    /\ pc = "connect"
    /\ order = Null
    /\ decision = Null
    /\ ledger = Null
    /\ call = Connection("new", 0, 0)
    /\ twin = Null
    /\ prices = <<>>
    /\ reading = Null
    /\ analysis = Null
    /\ ws = Null
    /\ reconnectAttempts = 0
    /\ timers = 0
    /\ detached = Null

\* what the steps of the feed leave alone
ConnectFrame ==
    UNCHANGED <<now, config, positions, dailyLoss, consecutiveLosses,
                dailyLossResetTime, running, currentSlug, lastTradeTime, stats,
                creds, order, decision, ledger, twin, reading, analysis, detached>>

\* start: await this.priceFeed.connect()
ConnectCall ==
    /\ pc = "connect"
    /\ ws = Null
    /\ ws' = Socket("connecting", "pending", TRUE)
    /\ call' = Connection("connect", call[1].closes, call[1].reconnects)
    /\ UNCHANGED <<pc, reconnectAttempts, timers>>
    /\ UNCHANGED prices
    /\ ConnectFrame

\* ws.on("open")
WsOpen ==
    /\ pc = "connect"
    /\ ws # Null
    /\ ws[1].readyState = "connecting"
    /\ reconnectAttempts' = 0
    /\ ws' = Socket("open", "resolved", ws[1].awaited)
    /\ call' = Connection("open", 0, 0)
    /\ UNCHANGED <<pc, timers>>
    /\ UNCHANGED prices
    /\ ConnectFrame

\* ws.on("error", reject).  Rejecting a settled promise does nothing.  The
\* rejection of the promise start awaits makes start throw, and main exits
\* the process; the rejection of a promise nobody holds is left to the
\* runtime, which reports it and goes on, or ends the process.
WsError(fatal) ==
    /\ pc = "connect"
    /\ ws # Null
    /\ ws[1].readyState \in {"connecting", "open"}
    /\ LET rejects == ws[1].promise = "pending"
       IN  /\ ws' = Socket("errored", IF rejects THEN "rejected" ELSE ws[1].promise,
                           ws[1].awaited)
           /\ pc' = IF rejects /\ (ws[1].awaited \/ fatal) THEN "exited" ELSE pc
    /\ call' = Connection("error", call[1].closes, call[1].reconnects)
    /\ UNCHANGED <<reconnectAttempts, timers>>
    /\ UNCHANGED prices
    /\ ConnectFrame

\* ws.on("close")
WsClose ==
    /\ pc = "connect"
    /\ ws # Null
    /\ ws[1].readyState \in {"connecting", "open", "errored"}
    /\ ws' = Socket("closed", ws[1].promise, ws[1].awaited)
    /\ IF mayReconnect(reconnectAttempts)
       THEN /\ reconnectAttempts' = reconnectAttempts + 1
            /\ timers' = timers + 1
       ELSE UNCHANGED <<reconnectAttempts, timers>>
    /\ call' = Connection("close", call[1].closes + 1, call[1].reconnects)
    /\ UNCHANGED pc
    /\ UNCHANGED prices
    /\ ConnectFrame

\* setTimeout(() => this.connect(), 5000) fires
ReconnectTimer ==
    /\ pc = "connect"
    /\ timers > 0
    /\ timers' = timers - 1
    /\ ws' = Socket("connecting", "pending", FALSE)
    /\ call' = Connection("reconnect", call[1].closes, call[1].reconnects + 1)
    /\ UNCHANGED <<pc, reconnectAttempts>>
    /\ UNCHANGED prices
    /\ ConnectFrame

\* ws.on("message") of the open socket
WsMessage(price) ==
    /\ pc = "connect"
    /\ ws # Null
    /\ ws[1].readyState = "open"
    /\ Len(prices) < MaxTicks
    /\ prices' = onMessage(prices, price, now)
    /\ call' = Connection("message", call[1].closes, call[1].reconnects)
    /\ UNCHANGED <<pc, ws, reconnectAttempts, timers>>
    /\ ConnectFrame

ConnectNext ==
    \/ ConnectCall
    \/ \E price \in Prices : WsMessage(price)
    \/ WsOpen
    \/ \E fatal \in BOOLEAN : WsError(fatal)
    \/ WsClose
    \/ ReconnectTimer

SpecConnect == ConnectInit /\ [][ConnectNext]_vars

----------------------------------------------------------------------------
(* analyze called on its own, on every combination of what the feed and the *)
(* venue can answer.                                                        *)

\* Momentum unavailable, at and on either side of the threshold, and flat.
AnalyzeMomenta == { Null, Some(-6), Some(-5), Some(0), Some(5), Some(6) }
\* Volatility unavailable, at the 0.05 it must exceed, and above it.
AnalyzeVolatilities == { Null, Some(5), Some(6) }
AnalyzeTrends == { "STRONG_UP", "WEAK_UP", "NEUTRAL", "WEAK_DOWN", "STRONG_DOWN" }
AnalyzeReadings ==
    [momentum : AnalyzeMomenta, volatility : AnalyzeVolatilities, trend : AnalyzeTrends]

\* Quotes without a bias, at the bias threshold, and around the prices at
\* which the edge of a 0.64 probability is the minimum edge.
AnalyzeQuotes ==
    { <<50, 50>>, <<52, 48>>, <<53, 47>>, <<59, 41>>, <<60, 40>>,
      <<41, 59>>, <<40, 60>>, <<20, 80>> }

AnalyzeMarketPricesAt(t) ==
    { getMarketPrices(Null, t) } \cup
    { getMarketPrices(getCurrentMarket("current", q, TRUE, t), t) : q \in AnalyzeQuotes }

AnalyzeInit ==
    /\ now = Epoch0 + WarmupSeconds
    /\ config = botConfig
    /\ positions = <<>>
    /\ dailyLoss = 0
    /\ consecutiveLosses = 0
    /\ dailyLossResetTime = resetDailyStats(now)
    /\ running = FALSE
    /\ currentSlug = ""
    /\ lastTradeTime = 0
    /\ stats = NoStats
    /\ creds = TRUE
    /\ pc = "analyze"
    /\ order = Null
    /\ decision = Null
    /\ ledger = Null
    /\ call = Null
    /\ twin = Null
    /\ prices = <<>>
    /\ reading = Null
    /\ analysis = Null
    /\ ws = Null
    /\ reconnectAttempts = 0
    /\ timers = 0
    /\ detached = Null

\* analyze(), the feed answering f and the venue mp
AnalyzeCall(f, mp) ==
    /\ analysis' = Some([feed |-> f, result |-> analyze(f, mp, config)])
    /\ UNCHANGED <<now, config, positions, dailyLoss, consecutiveLosses,
                   dailyLossResetTime, running, currentSlug, lastTradeTime, stats,
                   creds, pc, order, decision, ledger, call, twin, prices, reading>>
    /\ UNCHANGED connVars

AnalyzeNext ==
    \E f \in AnalyzeReadings, mp \in AnalyzeMarketPricesAt(now) : AnalyzeCall(f, mp)

SpecAnalyze == AnalyzeInit /\ [][AnalyzeNext]_vars

----------------------------------------------------------------------------
(* recordBet and calculateScenarios called on their own, with any arguments *)
(* and in any order, on a strategy that starts with an empty position map.  *)

\* The slugs of the period of Epoch0 and of the one after it.
RecordSlugs ==
    { formatSlug(Asset, get15MinTimestamps(Epoch0).current),
      formatSlug(Asset, get15MinTimestamps(Epoch0).next) }

\* <<direction, price, size>> of the bets recorded
RecordBets == { <<"UP", 30, MainBetSize>>, <<"DOWN", 20, HedgeBetSize>>,
                <<"DOWN", 80, MainBetSize>> }

RecordInstants == { Epoch0 + 61, Epoch0 + 62 }

RECURSIVE TotalRecorded(_, _)
\* the sum of totalBets over the Positions of the slugs in S
TotalRecorded(map, S) ==
    IF S = {} THEN 0
    ELSE LET slug == CHOOSE x \in S : TRUE
         IN  map[slug].totalBets + TotalRecorded(map, S \ {slug})

RecordInit ==
    /\ now = Epoch0 + 61
    /\ config = botConfig
    /\ positions = <<>>
    /\ dailyLoss = 0
    /\ consecutiveLosses = 0
    /\ dailyLossResetTime = resetDailyStats(now)
    /\ running = FALSE
    /\ currentSlug = ""
    /\ lastTradeTime = 0
    /\ stats = NoStats
    /\ creds = TRUE
    /\ pc = "record"
    /\ order = Null
    /\ decision = Null
    /\ ledger = Null
    /\ call = Null
    /\ twin = Null
    /\ prices = <<>>
    /\ reading = Null
    /\ analysis = Null
    /\ ws = Null
    /\ reconnectAttempts = 0
    /\ timers = 0
    /\ detached = Null

\* recordBet(slug, type, direction, price, size)
RecordCall(slug, type, bet) ==
    /\ TotalRecorded(positions, DOMAIN positions) < MaxRecorded
    /\ SetStrategy(recordBet(Strategy, slug, type, bet[1], bet[2], bet[3], now))
    /\ call' = Some([op |-> "recordBet", slug |-> slug, type |-> type,
                     bet |-> [direction |-> bet[1], price |-> bet[2], size |-> bet[3],
                              timestamp |-> now],
                     result |-> Null])
    /\ UNCHANGED <<now, config, running, currentSlug, lastTradeTime, stats, creds, pc,
                   order, decision, ledger, twin>>
    /\ UNCHANGED feedVars

\* calculateScenarios(slug, prices)
ScenariosCall(slug) ==
    /\ call' = Some([op |-> "calculateScenarios", slug |-> slug, type |-> "NONE",
                     bet |-> Null, result |-> calculateScenarios(Strategy, slug)])
    /\ UNCHANGED <<now, config, positions, dailyLoss, consecutiveLosses,
                   dailyLossResetTime, running, currentSlug, lastTradeTime, stats,
                   creds, pc, order, decision, ledger, twin>>
    /\ UNCHANGED feedVars

\* Time passes between two calls.
RecordTick ==
    /\ \E t \in RecordInstants : t > now /\ now' = t
    /\ call' = Null
    /\ UNCHANGED <<config, positions, dailyLoss, consecutiveLosses,
                   dailyLossResetTime, running, currentSlug, lastTradeTime, stats,
                   creds, pc, order, decision, ledger, twin>>
    /\ UNCHANGED feedVars

RecordNext ==
    \/ \E slug \in RecordSlugs, type \in {"MAIN", "HEDGE"}, bet \in RecordBets :
           RecordCall(slug, type, bet)
    \/ \E slug \in RecordSlugs : ScenariosCall(slug)
    \/ RecordTick

SpecRecord == RecordInit /\ [][RecordNext]_vars

----------------------------------------------------------------------------
(* Claims about the main loop, checked under Spec *)

Slots(position) ==
    (IF position.mainBet # Null THEN 1 ELSE 0) + (IF position.hedgeBet # Null THEN 1 ELSE 0)

\* C1: in every state the main loop reaches from an empty position map, no
\* Position holds a hedge bet without a main bet; and whatever analysis the next
\* iteration gets, evaluateTrade does not answer BET HEDGE for a slug whose
\* Position has no main bet, nor did the evaluation just made.
C1_NoHedgeWithoutMain ==
    /\ \A s \in DOMAIN positions :
          positions[s].hedgeBet # Null => positions[s].mainBet # Null
    /\ (decision # Null /\ decision[1].type = "HEDGE") =>
          /\ currentSlug \in DOMAIN positions
          /\ positions[currentSlug].mainBet # Null
    /\ pc = "analyze" =>
          \A a \in LoopAnalysesAt(now, config) :
             LET slug == a.marketPrices.slug
                 read == LoopCleanup(Strategy, slug).positions
             IN  evaluateTrade(LoopCleanup(Strategy, slug), config, a, now).decision.type
                    = "HEDGE"
                 => slug \in DOMAIN read /\ read[slug].mainBet # Null

\* C1 witness: a hedge was just decided and recorded on top of a main bet.
C1_Witness ==
    /\ decision # Null
    /\ decision[1].type = "HEDGE"
    /\ positions[currentSlug].hedgeBet # Null
    /\ positions[currentSlug].mainBet # Null

\* C2: for every Position the main loop reaches, totalBets is the number of
\* filled slots among mainBet and hedgeBet and is at most maxBetsPerMarket, for
\* each configured cap 0..MaxBetsCap.
C2_TotalBetsCountsSlots ==
    \A s \in DOMAIN positions :
        /\ positions[s].totalBets = Slots(positions[s])
        /\ positions[s].totalBets <= config.maxBetsPerMarket

\* C2 witness: a Position whose two slots are filled, under a cap of 2.
C2_Witness ==
    \E s \in DOMAIN positions :
        /\ positions[s].totalBets = config.maxBetsPerMarket
        /\ positions[s].totalBets = 2

\* C3 (as claimed): a slug whose Position got a main (hedge) bet is never seen
\* again with that slot empty, and no slot of it is recorded a second time.
C3_PositionOnlyAdvances ==
    ledger # Null =>
        LET l == ledger[1]
        IN  /\ l.main <= 1
            /\ l.hedge <= 1
            /\ l.slug \in DOMAIN positions =>
                  /\ (l.main > 0 => positions[l.slug].mainBet # Null)
                  /\ (l.hedge > 0 => positions[l.slug].hedgeBet # Null)

----------------------------------------------------------------------------
(* Claims about the strategy's methods, checked under SpecUnit *)

\* The last call was evaluateTrade; its decision is in decision.
Evaluated == call # Null /\ call[1].op = "evaluateTrade"

\* The Position evaluateTrade looked at: the one under the call's slug, or a
\* fresh one where a breaker returned before the Position was created.
EvaluatedPosition ==
    IF call[1].slug \in DOMAIN positions THEN positions[call[1].slug]
    ELSE EmptyPosition(call[1].slug)

\* The four guards as evaluateTrade read them (dailyLoss after the day check).
DailyLossApplies == dailyLoss >= config.maxDailyLoss
ConsecutiveLossApplies == consecutiveLosses >= config.maxConsecutiveLosses
CapApplies == EvaluatedPosition.totalBets >= config.maxBetsPerMarket
TailApplies ==
    parseTimeLeft(call[1].marketPrices[1].timeLeft)
        < config.noTradeLastMinutes * SecondsPerMinute
AnyGuardApplies ==
    DailyLossApplies \/ ConsecutiveLossApplies \/ CapApplies \/ TailApplies

\* C4: evaluateTrade answers SKIP with the reason of the first guard that
\* applies, in the order daily-loss breaker, consecutive-loss breaker,
\* per-market cap, tail guard, and never answers BET while one of them applies.
C4_GuardsInOrder ==
    Evaluated =>
        LET d == decision[1]
        IN  /\ DailyLossApplies => d = Skip("daily loss limit")
            /\ ~DailyLossApplies /\ ConsecutiveLossApplies
                  => d = Skip("consecutive losses limit")
            /\ ~DailyLossApplies /\ ~ConsecutiveLossApplies /\ CapApplies
                  => d = Skip("market bet limit")
            /\ ~DailyLossApplies /\ ~ConsecutiveLossApplies /\ ~CapApplies /\ TailApplies
                  => d = Skip("too little time")
            /\ AnyGuardApplies => d.action = "SKIP"

\* C4 witness: the consecutive-loss breaker answered at its limit, whatever
\* the strength of the signal, although the cap and the tail guard applied too.
C4_Witness ==
    /\ Evaluated
    /\ call[1].edge >= config.minEdgePercent
    /\ call[1].direction # "NEUTRAL"
    /\ ~DailyLossApplies
    /\ consecutiveLosses = config.maxConsecutiveLosses
    /\ CapApplies
    /\ TailApplies
    /\ decision[1].reason = "consecutive losses limit"

\* C5 (as claimed): with no guard applying and no main bet on the Position,
\* evaluateTrade answers BET(MAIN, direction, mainBetSize) exactly when the
\* signal fires (edge >= minEdgePercent, direction not NEUTRAL, quote found,
\* confidence >= 0.3); in particular it does not answer MAIN for MarketPrices
\* that were not found.
C5_MainIffSignalFires ==
    Evaluated =>
        LET a == call[1]
            fires == /\ a.edge >= config.minEdgePercent
                     /\ a.direction # "NEUTRAL"
                     /\ a.marketPrices[1].found
                     /\ a.confidence >= MinConfidence
        IN  /\ (~AnyGuardApplies /\ EvaluatedPosition.mainBet = Null) =>
                  (decision[1] = Bet("MAIN", a.direction, config.mainBetSize) <=> fires)
            /\ decision[1].type = "MAIN" => a.marketPrices[1].found

\* The hedge condition of the last evaluateTrade call.
HedgeCondition ==
    /\ config.enableHedging
    /\ EvaluatedPosition.mainBet # Null
    /\ EvaluatedPosition.hedgeBet = Null
    /\ LET mp == call[1].marketPrices[1]
       IN  (IF EvaluatedPosition.mainBet[1].direction = "UP"
            THEN mp.downPrice ELSE mp.upPrice) <= config.hedgePriceThreshold

C7_FlagIndependent ==
    /\ TwinConfig.hedgeOnlyWhenLosing # config.hedgeOnlyWhenLosing
    /\ twin.st = Strategy
    /\ twin.decision = decision

\* C7 witness: both strategies decided a hedge while the main bet's side is
\* quoted above the price it was bought at (the main bet is not losing).
C7_Witness ==
    /\ Evaluated
    /\ decision[1].type = "HEDGE"
    /\ twin.decision = decision
    /\ PriceOf(call[1].marketPrices[1], EvaluatedPosition.mainBet[1].direction)
          > EvaluatedPosition.mainBet[1].price

\* The step is a call of evaluateTrade.
EvaluateStep == call' # Null /\ call'[1].op = "evaluateTrade"

\* C8 (as claimed): an evaluation at or after the day boundary resets both
\* dailyLoss and consecutiveLosses to zero and moves the boundary on by exactly
\* 24 hours.
C8_BothCountersReset ==
    [][ (EvaluateStep /\ now >= dailyLossResetTime) =>
            /\ dailyLoss' = 0
            /\ consecutiveLosses' = 0
            /\ dailyLossResetTime' = dailyLossResetTime + SecondsPerDay ]_vars

\* C8 (amended): an evaluation at or after the day boundary resets dailyLoss to
\* zero, leaves consecutiveLosses as it was, and sets the boundary to 24 hours
\* after the last midnight at or before the current time: the first midnight
\* after now, which is the old boundary plus 24 hours exactly when less than 24
\* hours have passed since the old boundary.
C8_DailyLossResetOnly ==
    [][ (EvaluateStep /\ now >= dailyLossResetTime) =>
            /\ dailyLoss' = 0
            /\ consecutiveLosses' = consecutiveLosses
            /\ dailyLossResetTime' % SecondsPerDay = 0
            /\ dailyLossResetTime' > now
            /\ dailyLossResetTime' - now <= SecondsPerDay
            /\ (dailyLossResetTime' = dailyLossResetTime + SecondsPerDay
                  <=> now < dailyLossResetTime + SecondsPerDay) ]_vars

\* C8 witness: an evaluation found the boundary passed by more than 24 hours;
\* the daily loss is gone, the consecutive losses are still at their limit.
C8_Witness ==
    /\ Evaluated
    /\ dailyLossResetTime > resetDailyStats(Epoch0) + SecondsPerDay
    /\ dailyLoss = 0
    /\ consecutiveLosses = MaxConsecutiveLosses

\* C9: an evaluation at or after the day boundary resets dailyLoss to 0 and
\* leaves consecutiveLosses unchanged; an evaluation before the boundary
\* changes neither counter nor the boundary.
C9_ResetFrame ==
    [][ EvaluateStep =>
            IF now >= dailyLossResetTime
            THEN dailyLoss' = 0 /\ consecutiveLosses' = consecutiveLosses
            ELSE UNCHANGED <<dailyLoss, consecutiveLosses, dailyLossResetTime>> ]_vars

\* C9 witness: after an evaluation past the first boundary, the daily loss
\* that began at its limit is 0 and the two consecutive losses are still there.
C9_Witness ==
    /\ Evaluated
    /\ dailyLossResetTime = resetDailyStats(Epoch0) + SecondsPerDay
    /\ dailyLoss = 0
    /\ consecutiveLosses = 2

\* C10: after cleanupOldPositions(s) the map has no key other than s, holds at
\* most one Position, and the Position under s, if there was one, is unchanged.
C10_CleanupKeepsOnlyCurrent ==
    [][ (call' # Null /\ call'[1].op = "cleanupOldPositions") =>
            LET s == call'[1].slug
            IN  /\ DOMAIN positions' \subseteq {s}
                /\ Cardinality(DOMAIN positions') <= 1
                /\ s \in DOMAIN positions =>
                      /\ s \in DOMAIN positions'
                      /\ positions'[s] = positions[s] ]_vars

\* C10 witness: a cleanup of a map with two Positions left the one under the
\* current slug, with its main bet.
C10_Witness ==
    /\ call # Null
    /\ call[1].op = "cleanupOldPositions"
    /\ Cardinality(call[1].keys) = 2
    /\ DOMAIN positions = {call[1].slug}
    /\ positions[call[1].slug].mainBet # Null

\* C11 (as claimed): after every iteration of the main loop (at its sleep, or
\* at the placeBet it awaits) the position map holds at most one Position and
\* none for a slug other than the one the iteration's analysis returned.
C11_OnlyActivePosition ==
    pc \in {"sleep", "placeBet", "sleepError"} =>
        /\ DOMAIN positions \subseteq {currentSlug}
        /\ Cardinality(DOMAIN positions) <= 1

----------------------------------------------------------------------------
(* Claims about analyze, checked under SpecAnalyze *)

\* The largest confidence the four additions can give: 0.7.
FullConfidence ==
    MomentumConfidence + TrendConfidence + BiasConfidence + VolatilityConfidence

\* C12: whatever the feed and the venue answer, the confidence analyze returns
\* lies in [0, 0.7] and its realProbability in [0.5, 0.75], and realProbability
\* is exactly 0.5 whenever the direction is NEUTRAL.
C12_ConfidenceAndProbabilityRanges ==
    analysis # Null =>
        LET r == analysis[1].result
        IN  /\ 0 <= r.confidence
            /\ r.confidence <= FullConfidence
            /\ BaseProbability <= r.realProbability
            /\ r.realProbability <= MaxProbability
            /\ r.direction = "NEUTRAL" => r.realProbability = BaseProbability

\* C12 witness: a NEUTRAL direction with a confidence above 0 (the volatility
\* alone added to it) and the probability at 0.5.
C12_Witness ==
    /\ analysis # Null
    /\ analysis[1].feed.momentum # Null
    /\ analysis[1].result.direction = "NEUTRAL"
    /\ analysis[1].result.confidence > 0
    /\ analysis[1].result.realProbability = BaseProbability

\* The additive conditions that hold for an input of analyze, as the four
\* steps state them: momentum over the threshold, a strong trend agreeing with
\* the direction, the venue's bias equal to the direction, volatility > 0.05.
ConditionsOf(f, mp) ==
    LET over == f.momentum # Null
                /\ Abs(f.momentum[1]) > config.momentumThresholdPercent
        up == over /\ f.momentum[1] > 0
        down == over /\ f.momentum[1] < 0
    IN  (IF over THEN {"momentum"} ELSE {})
        \cup (IF (up /\ f.trend = "STRONG_UP") \/ (down /\ f.trend = "STRONG_DOWN")
              THEN {"trend"} ELSE {})
        \cup (IF (up /\ mp.marketBias = "UP") \/ (down /\ mp.marketBias = "DOWN")
              THEN {"bias"} ELSE {})
        \cup (IF f.volatility # Null /\ f.volatility[1] > VolatilityThreshold
              THEN {"volatility"} ELSE {})

\* The increments of the conditions in S, added up.
IncrementsOf(S) ==
    (IF "momentum" \in S THEN MomentumConfidence ELSE 0)
    + (IF "trend" \in S THEN TrendConfidence ELSE 0)
    + (IF "bias" \in S THEN BiasConfidence ELSE 0)
    + (IF "volatility" \in S THEN VolatilityConfidence ELSE 0)

\* C13 (as claimed): for any two inputs of analyze, if the conditions that hold
\* for the first are among those that hold for the second, the confidence of
\* the first is at most that of the second, each condition adding exactly its
\* +0.3, +0.2, +0.1 or +0.1.
C13_ConfidenceMonotone ==
    analysis # Null =>
        LET x == analysis[1]
            held == ConditionsOf(x.feed, x.result.marketPrices)
        IN  /\ x.result.confidence = IncrementsOf(held)
            /\ \A f \in AnalyzeReadings, mp \in AnalyzeMarketPricesAt(now) :
                  held \subseteq ConditionsOf(f, mp)
                     => x.result.confidence <= analyze(f, mp, config).confidence

\* C13 (amended): the same for inputs whose momentum is available; when the
\* momentum is unavailable the confidence is 0 whatever the volatility.
C13_ConfidenceMonotoneWhenAvailable ==
    analysis # Null =>
        LET x == analysis[1]
            held == ConditionsOf(x.feed, x.result.marketPrices)
        IN  IF x.feed.momentum = Null THEN x.result.confidence = 0
            ELSE /\ x.result.confidence = IncrementsOf(held)
                 /\ \A f \in AnalyzeReadings, mp \in AnalyzeMarketPricesAt(now) :
                       (f.momentum # Null /\ held \subseteq ConditionsOf(f, mp))
                          => x.result.confidence <= analyze(f, mp, config).confidence

\* C13 witness: an input with the momentum over the threshold and the venue's
\* bias against it, for which only two of the conditions hold: 0.3 + 0.1.
C13_Witness ==
    /\ analysis # Null
    /\ ConditionsOf(analysis[1].feed, analysis[1].result.marketPrices)
          = {"momentum", "volatility"}
    /\ analysis[1].result.marketPrices.marketBias
          \notin {"NEUTRAL", analysis[1].result.direction}
    /\ analysis[1].result.confidence = MomentumConfidence + VolatilityConfidence

\* C14: analyze returns edge = (realProbability - p) * 100, p being upPrice
\* for UP, downPrice for DOWN and 0.5 for NEUTRAL, and shouldTrade true exactly
\* when edge >= minEdgePercent, the direction is not NEUTRAL, the market was
\* found and confidence >= 0.3; a probability of 0.65 against a price of 0.55
\* is an edge of 10, which is at least the minimum edge of 5.
C14_ShouldTradeIffSignalFires ==
    /\ edgeOf(6500, 55) = 1000
    /\ edgeOf(6500, 55) >= botConfig.minEdgePercent
    /\ analysis # Null =>
          LET r == analysis[1].result
              p == IF r.direction = "UP" THEN r.marketPrices.upPrice
                   ELSE IF r.direction = "DOWN" THEN r.marketPrices.downPrice
                   ELSE HalfPrice
          IN  /\ r.edge = r.realProbability - PriceUnit * p
              /\ r.shouldTrade <=> (/\ r.edge >= config.minEdgePercent
                                    /\ r.direction # "NEUTRAL"
                                    /\ r.marketPrices.found
                                    /\ r.confidence >= MinConfidence)

\* C14 witness: a signal that fires with its edge exactly the minimum edge.
C14_Witness ==
    /\ analysis # Null
    /\ analysis[1].result.shouldTrade
    /\ analysis[1].result.edge = config.minEdgePercent
    /\ analysis[1].result.marketPrices.found

\* The first failing condition of a result, in the order market not found,
\* direction neutral, confidence too low, edge too low, else eligible.
FirstFailing(r) ==
    IF ~r.marketPrices.found THEN "market not found"
    ELSE IF r.direction = "NEUTRAL" THEN "momentum below threshold"
    ELSE IF r.confidence < MinConfidence THEN "low confidence"
    ELSE IF r.edge < config.minEdgePercent THEN "edge below minimum"
    ELSE "signal"

\* C15 (as claimed): for every input the reason analyze returns is the first
\* failing condition in that order, so it is 'market not found' whenever the
\* market is not found, also with the momentum unavailable, and it is the
\* eligible one exactly when shouldTrade is true.
C15_ReasonIsFirstFailing ==
    analysis # Null =>
        LET r == analysis[1].result
        IN  /\ r.reason = FirstFailing(r)
            /\ ~r.marketPrices.found => r.reason = "market not found"
            /\ r.reason = "signal" <=> r.shouldTrade

\* C15 (amended): when the momentum is unavailable the reason is 'not enough
\* data', whether the market was found or not, with direction NEUTRAL,
\* confidence 0, realProbability 0.5, edge 0 and shouldTrade false; for every
\* other input the reason is the first failing condition in the order above;
\* and the reason is the eligible one exactly when shouldTrade is true.
C15_ReasonAfterDataCheck ==
    analysis # Null =>
        LET r == analysis[1].result
        IN  /\ IF analysis[1].feed.momentum = Null
               THEN /\ r.reason = "no data"
                    /\ r.direction = "NEUTRAL"
                    /\ r.confidence = 0
                    /\ r.realProbability = BaseProbability
                    /\ r.edge = 0
                    /\ ~r.shouldTrade
               ELSE r.reason = FirstFailing(r)
            /\ r.reason = "signal" <=> r.shouldTrade

\* C15 witness: the momentum is unavailable and the market is not found; the
\* reason returned is 'not enough data'.
C15_Witness ==
    /\ analysis # Null
    /\ analysis[1].feed.momentum = Null
    /\ ~analysis[1].result.marketPrices.found
    /\ analysis[1].result.reason = "no data"

----------------------------------------------------------------------------
(* Claims about BinancePriceFeed, checked under SpecFeed *)

\* the positions of the PricePoints at or before the cutoff of a window
AtOrBefore(windowSeconds) ==
    { i \in DOMAIN prices : prices[i].timestamp <= now - windowSeconds }

\* the positions of the PricePoints after the cutoff of a window
After(windowSeconds) ==
    { i \in DOMAIN prices : prices[i].timestamp > now - windowSeconds }

\* the latest PricePoint at or before the cutoff of a window
Reference(windowSeconds) ==
    CHOOSE j \in AtOrBefore(windowSeconds) : \A k \in AtOrBefore(windowSeconds) : k <= j

\* what a read of the momentum over a window is to return
ExpectedMomentum(windowSeconds) ==
    IF Len(prices) < 2 \/ AtOrBefore(windowSeconds) = {}
    THEN Null
    ELSE LET past == prices[Reference(windowSeconds)].price
             latest == prices[Len(prices)].price
         IN  Some([num |-> (latest - past) * 100, den |-> past])

\* C16: calculateMomentum(w) is unavailable whenever the window holds fewer
\* than 2 observations or none has timestamp <= now - w, and is otherwise
\* (latest price - price of the latest observation with timestamp <= now - w)
\* / that past price * 100; calculateVolatility(w) is unavailable whenever
\* fewer than 10 observations have timestamp > now - w.
C16_MomentumAndVolatilityAvailability ==
    reading # Null =>
        /\ reading[1].momentum = ExpectedMomentum(60)
        /\ reading[1].trend.short = ExpectedMomentum(30)
        /\ reading[1].trend.medium = ExpectedMomentum(120)
        /\ Cardinality(After(60)) < 10 => reading[1].volatility = Null

\* a read that finds a momentum other than 0 and too few recent observations
\* for a volatility
C16_Witness ==
    /\ reading # Null
    /\ reading[1].momentum # Null
    /\ reading[1].momentum[1].num # 0
    /\ Cardinality(After(60)) < 10
    /\ Len(prices) >= 3

\* every PricePoint after the cutoff of a window has one price
ConstantAfter(windowSeconds) ==
    \A i, j \in After(windowSeconds) : prices[i].price = prices[j].price

\* the latest PricePoint at or before the cutoff and every one after it have
\* one price
ConstantFromReference(windowSeconds) ==
    \E r \in { Reference(windowSeconds) } :
        \A i \in DOMAIN prices : i >= r => prices[i].price = prices[r].price

\* C17 as stated: whenever calculateMomentum(w) is available and every
\* observation with timestamp in (now - w, now] has the same price,
\* calculateMomentum(w) returns 0.
C17_ZeroWhenWindowConstant ==
    reading # Null =>
        /\ reading[1].momentum # Null /\ ConstantAfter(60)
               => reading[1].momentum[1].num = 0
        /\ reading[1].trend.short # Null /\ ConstantAfter(30)
               => reading[1].trend.short[1].num = 0
        /\ reading[1].trend.medium # Null /\ ConstantAfter(120)
               => reading[1].trend.medium[1].num = 0

\* C17, amended: whenever calculateMomentum(w) is available and the latest
\* observation with timestamp <= now - w and every observation after it have
\* the same price, calculateMomentum(w) returns 0.
C17_ZeroWhenConstantFromReference ==
    reading # Null =>
        /\ reading[1].momentum # Null /\ ConstantFromReference(60)
               => reading[1].momentum[1].num = 0
        /\ reading[1].trend.short # Null /\ ConstantFromReference(30)
               => reading[1].trend.short[1].num = 0
        /\ reading[1].trend.medium # Null /\ ConstantFromReference(120)
               => reading[1].trend.medium[1].num = 0

\* a read of an available momentum over a window that holds observations, of
\* the price of the reference observation, after an earlier different price
C17_Witness ==
    /\ reading # Null
    /\ reading[1].momentum # Null
    /\ After(60) # {}
    /\ ConstantFromReference(60)
    /\ \E i \in DOMAIN prices : prices[i].price # prices[Len(prices)].price

\* the sign of a momentum
SignOf(momentum) ==
    IF momentum[1].num > 0 THEN 1 ELSE IF momentum[1].num < 0 THEN -1 ELSE 0

\* the class the trend is to have for the signs of two available momenta
ClassOfSigns(short, medium) ==
    IF short = 1 /\ medium = 1 THEN "STRONG_UP"
    ELSE IF short = -1 /\ medium = -1 THEN "STRONG_DOWN"
    ELSE IF short = 1 THEN "WEAK_UP"
    ELSE IF short = -1 THEN "WEAK_DOWN"
    ELSE "NEUTRAL"

\* a momentum scaled by a positive whole factor
Scaled(momentum, factor) ==
    IF momentum = Null THEN Null
    ELSE Some([num |-> momentum[1].num * factor, den |-> momentum[1].den])

Factors == 1..3

\* C18: calculateTrend returns NEUTRAL whenever momentum(30) or momentum(120)
\* is unavailable; otherwise the class depends only on the signs: both > 0
\* gives STRONG_UP, both < 0 STRONG_DOWN, otherwise short > 0 gives WEAK_UP,
\* short < 0 WEAK_DOWN and short = 0 NEUTRAL; scaling either momentum by a
\* positive factor never changes the class.
C18_TrendBySigns ==
    reading # Null =>
        LET trend == reading[1].trend
        IN  /\ trend.short = calculateMomentum(prices, 30, now)
            /\ trend.medium = calculateMomentum(prices, 120, now)
            /\ trend.short = Null \/ trend.medium = Null => trend.direction = "NEUTRAL"
            /\ trend.short # Null /\ trend.medium # Null =>
                   trend.direction = ClassOfSigns(SignOf(trend.short), SignOf(trend.medium))
            /\ \A f, g \in Factors :
                   trendDirection(Scaled(trend.short, f), Scaled(trend.medium, g))
                       = trend.direction

\* a read with the short momentum positive and the medium one unavailable
C18_Witness ==
    /\ reading # Null
    /\ reading[1].trend.short # Null
    /\ reading[1].trend.short[1].num > 0
    /\ reading[1].trend.medium = Null

\* the step is the handling of a trade message
MessageStep ==
    /\ call' # Null
    /\ call'[1].op = "message"
    /\ prices' # prices

\* C19: after every processed tick the window has the new observation as its
\* last element, is ordered by non-decreasing timestamp and holds no
\* observation 10 minutes or more older than the tick; the observations newer
\* than that are all kept, in their order.
C19_TickAppendsAndPrunes ==
    [][ MessageStep =>
          /\ Len(prices') >= 1
          /\ prices'[Len(prices')] = [timestamp |-> now, price |-> call'[1].price]
          /\ \A i \in 1..(Len(prices') - 1) :
                 prices'[i].timestamp <= prices'[i + 1].timestamp
          /\ \A i \in DOMAIN prices' : now - prices'[i].timestamp < 600
          /\ SubSeq(prices', 1, Len(prices') - 1)
                 = SelectSeq(prices, LAMBDA p : now - p.timestamp < 600)
      ]_vars

\* a tick has been handled that dropped an observation and kept an older one
\* than itself
C19_Witness ==
    /\ call # Null
    /\ call[1].op = "message"
    /\ Len(prices) < call[1].before + 1
    /\ Len(prices) >= 2
    /\ prices[1].timestamp < now

\* C20: at every moment at which the engine reads the window (getCurrentPrice,
\* calculateMomentum, calculateVolatility) every retained observation
\* satisfies now - timestamp < 10 minutes, also when the feed has delivered no
\* tick for more than 10 minutes.
C20_ReadsSeeOnlyFreshObservations ==
    reading # Null =>
        \A i \in DOMAIN prices : now - prices[i].timestamp < 600

----------------------------------------------------------------------------
(* Claims about recordBet and calculateScenarios, checked under SpecRecord *)

\* the last call was calculateScenarios
ScenariosCalled == call # Null /\ call[1].op = "calculateScenarios"

\* two fractions are the same number
SameNumber(x, y) == x.num * y.den = y.num * x.den

\* the fraction x is the whole number n
IsNumber(x, n) == x.num = n * x.den

\* profit and roi of a scenario are derived from its payout and the total invested
Derived(scenario, totalInvested) ==
    /\ SameNumber(scenario.profit,
                  [num |-> scenario.payout.num - totalInvested * scenario.payout.den,
                   den |-> scenario.payout.den])
    /\ SameNumber(scenario.roi,
                  [num |-> scenario.profit.num * 100,
                   den |-> scenario.profit.den * totalInvested])

\* C21: calculateScenarios returns null iff the slug has no Position or its
\* main bet is null; otherwise ifMainWins.payout = main.size / main.price,
\* ifMainLoses.payout = hedge.size / hedge.price (0 without hedge),
\* totalInvested = main.size + hedge.size, each profit = payout -
\* totalInvested and each roi = profit / totalInvested * 100 (-100 for
\* ifMainLoses without hedge); a main bet of 15 at 0.30 without hedge gives
\* payout 50, profit 35 and roi 233.3 % (700 / 3).
C21_ScenariosArithmetic ==
    ScenariosCalled =>
        LET slug == call[1].slug
            result == call[1].result
            absent == slug \notin DOMAIN positions
        IN  /\ result = Null <=> (absent \/ positions[slug].mainBet = Null)
            /\ result # Null =>
                   LET main == positions[slug].mainBet[1]
                       hedge == positions[slug].hedgeBet
                       hedgeSize == IF hedge = Null THEN 0 ELSE hedge[1].size
                       totalInvested == main.size + hedgeSize
                       wins == result[1].ifMainWins
                       loses == result[1].ifMainLoses
                   IN  /\ SameNumber(wins.payout, [num |-> main.size * 100, den |-> main.price])
                       /\ IF hedge = Null
                          THEN IsNumber(loses.payout, 0) /\ IsNumber(loses.roi, -100)
                          ELSE SameNumber(loses.payout,
                                          [num |-> hedge[1].size * 100, den |-> hedge[1].price])
                       /\ Derived(wins, totalInvested)
                       /\ Derived(loses, totalInvested)
                       /\ (main.size = 15 /\ main.price = 30 /\ hedge = Null) =>
                              /\ IsNumber(wins.payout, 50)
                              /\ IsNumber(wins.profit, 35)
                              /\ wins.roi.num * 3 = 700 * wins.roi.den

\* the scenarios of a main bet of 15 at 0.30 without hedge have been computed
C21_Witness ==
    /\ ScenariosCalled
    /\ call[1].result # Null
    /\ positions[call[1].slug].mainBet[1].size = 15
    /\ positions[call[1].slug].mainBet[1].price = 30
    /\ positions[call[1].slug].hedgeBet = Null
    /\ call[1].result[1].ifMainWins.profit.num > 0

\* the step is a call of recordBet
RecordStep ==
    /\ call' # Null
    /\ call'[1].op = "recordBet"
    /\ positions' # positions

\* C22: recordBet(slug, kind, ...) creates the Position for slug if absent,
\* writes the bet into the slot named by kind and leaves the other slot and
\* all other Positions as they were, and adds exactly 1 to totalBets; a slot
\* that is filled is overwritten, and totalBets counts that call as well.
C22_RecordBetFrame ==
    [][ RecordStep =>
          LET slug == call'[1].slug
              before == IF slug \in DOMAIN positions THEN positions[slug]
                        ELSE [slug |-> slug, mainBet |-> <<>>, hedgeBet |-> <<>>,
                              totalBets |-> 0]
              after == positions'[slug]
          IN  /\ DOMAIN positions' = DOMAIN positions \cup {slug}
              /\ \A other \in DOMAIN positions \ {slug} : positions'[other] = positions[other]
              /\ after.slug = slug
              /\ IF call'[1].type = "MAIN"
                 THEN after.mainBet = <<call'[1].bet>> /\ after.hedgeBet = before.hedgeBet
                 ELSE after.hedgeBet = <<call'[1].bet>> /\ after.mainBet = before.mainBet
              /\ after.totalBets = before.totalBets + 1
              /\ UNCHANGED <<dailyLoss, consecutiveLosses, dailyLossResetTime>>
      ]_vars

\* recordBet has overwritten a slot: its Position counts more bets than it has
\* slots filled, and the slot holds the bet of the last call
C22_Witness ==
    /\ call # Null
    /\ call[1].op = "recordBet"
    /\ call[1].type = "MAIN"
    /\ positions[call[1].slug].totalBets > Slots(positions[call[1].slug])
    /\ positions[call[1].slug].mainBet = <<call[1].bet>>
    /\ Cardinality(DOMAIN positions) = 2

----------------------------------------------------------------------------
(* Claims about order submission in the main loop, checked under Spec *)

\* the last evaluation of the main loop answered BET
BetDecided == decision # Null /\ decision[1].action = "BET"

\* C23: in every execution of the main loop with simulationMode = true,
\* placeBet is never invoked, whatever evaluateTrade decides: the loop is
\* never suspended in placeBet, no order is in flight and none has been
\* counted as a trade.
C23_SimulationNeverSubmits ==
    config.simulationMode => pc # "placeBet" /\ order = Null /\ stats.trades = 0

\* a cycle of a run in simulation mode has decided a bet and gone to sleep
C23_Witness ==
    /\ config.simulationMode
    /\ BetDecided
    /\ pc = "sleep"
    /\ stats.opportunities > 0

\* C24: in every cycle that produces a BET decision the order is submitted
\* before recordBet fills the Position slot, so a slot is only ever filled for
\* a bet whose submission was made: the bets recorded (counted with each
\* recordBet) never outnumber the submissions that returned.
C24_SubmittedBeforeRecorded ==
    stats.mainBets + stats.hedgeBets <= stats.trades

\* the step is a submission that fails: placeBet throws
SubmissionFails == pc = "placeBet" /\ pc' = "sleepError"

\* C25: a failure of the order submission never propagates out of the
\* evaluation cycle (the loop goes on to its pause), and every failed
\* submission is recorded in the bot's statistics.
C25_FailureContainedAndCounted ==
    [][ /\ (pc = "placeBet" /\ pc' # pc) => pc' \in {"sleep", "sleepError", "exited"}
        /\ SubmissionFails => stats' # stats
      ]_vars

----------------------------------------------------------------------------
(* Claims about the loop's progress, checked under SpecLive *)

\* the model's clock has an instant left for the pause after an error
PauseCanEnd == Later(now, ErrorSleepSeconds) # {}

\* C26: an exception raised inside a cycle of the main loop is caught inside
\* that cycle and followed by a pause, and while running is true another
\* cycle eventually starts: a failing cycle ends neither the loop nor the
\* process.
C26_FailingCycleIsFollowedByAnother ==
    /\ [][ (pc = "placeBet" /\ ~creds /\ pc' # pc) => pc' \in {"sleepError", "exited"} ]_vars
    /\ (pc = "sleepError" /\ PauseCanEnd) ~> (pc = "analyze" \/ ~running)

\* a cycle has failed and the loop is in the pause that follows, still running
C26_Witness ==
    /\ pc = "sleepError"
    /\ running
    /\ ~creds
    /\ PauseCanEnd

----------------------------------------------------------------------------
(* Claims about the frames of the feed, checked under SpecIngest *)

\* a frame that is not valid JSON, or valid JSON without a numeric price field
Malformed(frame) ==
    \/ frame.json # "object"
    \/ frame.p = <<>>
    \/ frame.p \notin { <<"100">>, <<"101">> }

\* a frame has just been handled
FrameHandled == call # Null /\ call[1].op = "frame"

\* C27: a malformed tick is treated as absent: it leaves the price window as
\* it was, and no observation in the window ever has an undefined or NaN
\* price.
C27_MalformedTickIsAbsent ==
    /\ FrameHandled /\ Malformed(call[1].frame) => prices = call[1].before
    /\ \A i \in DOMAIN prices : prices[i].price # NaN

----------------------------------------------------------------------------
(* Claims about the loop and the feed together, checked under SpecLoopFeed *)

\* the step is the handling of a price tick
TickStep == prices' # prices

\* C28: at most one evaluate / recordBet / order-submission sequence is in
\* flight: while an order is in flight the loop is suspended in placeBet (or
\* the process has exited), and while it is suspended there nothing is
\* evaluated, recorded or submitted
\* and no new cycle starts; a price tick that arrives while a cycle is
\* suspended modifies the price window only, never the position map or the
\* risk counters.
C28_OneSequenceInFlight ==
    /\ [](order # Null => pc \in {"placeBet", "exited"})
    /\ [][ pc = "placeBet" =>
             /\ pc' \in {"placeBet", "sleep", "sleepError", "exited"}
             /\ UNCHANGED <<positions, dailyLoss, consecutiveLosses, dailyLossResetTime,
                            decision, ledger>>
             /\ order' \in {order, Null} ]_vars
    /\ [][ TickStep =>
             UNCHANGED <<positions, dailyLoss, consecutiveLosses, dailyLossResetTime,
                         pc, order, decision, stats, lastTradeTime, currentSlug,
                         running>> ]_vars

\* a tick has been handled while the loop was suspended in placeBet, with a
\* bet recorded and its order in flight
C28_Witness ==
    /\ pc = "placeBet"
    /\ order # Null
    /\ call # Null
    /\ call[1].op = "message"
    /\ call[1].during = "placeBet"
    /\ prices # <<>>
    /\ positions # <<>>

----------------------------------------------------------------------------
(* Claims about stopping, checked under Spec *)

\* C29: a stop request issued while the main loop is running takes effect
\* only at the next iteration boundary: the iteration in progress runs to its
\* end, with the order submission it has begun, and no new iteration starts
\* after it.  The loop never ends with an order in flight, and it ends only
\* at the evaluation of its condition.
C29_StopAtIterationBoundary ==
    /\ [](pc = "exited" => order = Null)
    /\ [][ (pc' \in {"done", "exited"} /\ pc' # pc) => pc = "loop" ]_vars

----------------------------------------------------------------------------
(* Claims about the feed's connection, checked under SpecConnect *)

\* the step is a close event of the socket
CloseStep == call'[1].op = "close" /\ call'[1].closes = call[1].closes + 1

\* the step is an open event of the socket
OpenStep == call'[1].op = "open" /\ ws'[1].readyState = "open"

\* the step is a reconnect: the timer fires and connect() is called
ReconnectStep == call'[1].op = "reconnect" /\ call'[1].reconnects = call[1].reconnects + 1

\* a reconnect is scheduled only while reconnectAttempts < 10, and the
\* counter changes only by 1 at a close and to 0 at an open
CounterRule ==
    /\ [][ timers' > timers => CloseStep /\ reconnectAttempts < 10 ]_vars
    /\ [][ reconnectAttempts' # reconnectAttempts =>
             \/ CloseStep /\ reconnectAttempts' = reconnectAttempts + 1
             \/ OpenStep /\ reconnectAttempts' = 0 ]_vars

\* a close that schedules nothing changes nothing of the feed but the socket,
\* and the process ends only by the rejection of a connect() promise
SilentGiveUp ==
    /\ [][ (CloseStep /\ timers' = timers) =>
             UNCHANGED <<reconnectAttempts, pc, prices>> ]_vars
    /\ [][ pc' # pc => call'[1].op = "error" /\ ws'[1].promise = "rejected" ]_vars

\* C30 as stated: after a close the feed schedules a reconnect only while
\* reconnectAttempts < 10; the counter increases by 1 per close and is reset
\* to 0 only by an open, so after 10 consecutive closes without an open no
\* further reconnect is ever attempted, and no error or health signal is
\* raised.
C30_NoReconnectAfterTenCloses ==
    /\ CounterRule
    /\ SilentGiveUp
    /\ [](call[1].closes >= 10 => timers = 0)
    /\ [][ call[1].closes >= 10 => ~ReconnectStep ]_vars

\* C30, amended: each of the first 10 consecutive closes without an open
\* schedules a reconnect (the counter goes from 0 to 10), the reconnect set
\* by the 10th close is still attempted, and from the 11th consecutive close
\* on nothing is scheduled, the counter stays 10, no reconnect is ever
\* attempted and the close handler raises no error or health signal.
C30_NoReconnectAfterElevenCloses ==
    /\ CounterRule
    /\ SilentGiveUp
    /\ [][ CloseStep => (timers' = timers + 1 <=> call[1].closes < 10) ]_vars
    /\ [](call[1].closes >= 11 => timers = 0 /\ reconnectAttempts = 10)
    /\ [][ call[1].closes >= 11 => ~ReconnectStep ]_vars

\* the feed has given up: 11 closes and 10 reconnects since the last open,
\* nothing scheduled, the process running
C30_Witness ==
    /\ call[1].closes = 11
    /\ call[1].reconnects = 10
    /\ reconnectAttempts = 10
    /\ timers = 0
    /\ detached = Null
    /\ pc = "connect"

----------------------------------------------------------------------------
(* MarketCalculator and parseTimeLeft over every second of four periods,    *)
(* with the time-left string as the characters getTimeLeft prints and the   *)
(* two regular expressions of parseTimeLeft matched against them.  The      *)
(* letters are written in Latin: "m" is the minutes' letter, "s" the        *)
(* seconds' letter, and the expired word "Istek" holds the seconds' letter  *)
(* as its second character, as the source's word does.                      *)

DigitChars == <<"0", "1", "2", "3", "4", "5", "6", "7", "8", "9">>

IsDigit(c) == \E i \in 1..Len(DigitChars) : DigitChars[i] = c

\* String(n) for a number n >= 0, as template literals print it
RECURSIVE numberToString(_)
numberToString(n) ==
    IF n < 10 THEN <<DigitChars[n + 1]>>
    ELSE numberToString(n \div 10) \o <<DigitChars[(n % 10) + 1]>>

\* parseInt(digits) for a run of decimal digits
RECURSIVE parseInt(_)
parseInt(digits) ==
    IF digits = <<>> THEN 0
    ELSE parseInt(SubSeq(digits, 1, Len(digits) - 1)) * 10
         + ((CHOOSE i \in 1..Len(DigitChars) : DigitChars[i] = digits[Len(digits)]) - 1)

ExpiredWord == <<"I", "s", "t", "e", "k">>

\* the string getTimeLeft returns (lines 971-975), and "" for no market
timeLeftString(timeLeft) ==
    CASE timeLeft.kind = "expired" -> ExpiredWord
      [] timeLeft.kind = "empty" -> <<>>
      [] OTHER -> numberToString(timeLeft.minutes) \o <<"m", " ">>
                    \o numberToString(timeLeft.seconds) \o <<"s">>

\* a match that takes the first run of digits, whatever follows it
matchDigitsBefore_AnyLetter(text, letter) ==
    LET starts == { i \in 1..Len(text) : IsDigit(text[i]) }
    IN  IF starts = {} THEN Null
        ELSE LET i == CHOOSE k \in starts : \A l \in starts : k <= l
                 j == CHOOSE k \in i..Len(text) :
                          /\ \A l \in i..k : IsDigit(text[l])
                          /\ (k = Len(text) \/ ~IsDigit(text[k + 1]))
             IN  Some(SubSeq(text, i, j))

\* text.match(/(\d+)<letter>/): the capture of the leftmost match, or null
matchDigitsBefore(text, letter) ==
    LET ends == { j \in 1..Len(text) - 1 : IsDigit(text[j]) /\ text[j + 1] = letter }
        hits == { i \in 1..Len(text) :
                    \E j \in ends : i <= j /\ \A l \in i..j : IsDigit(text[l]) }
    IN  IF hits = {} THEN Null
        ELSE LET i == CHOOSE k \in hits : \A l \in hits : k <= l
                 j == CHOOSE k \in ends : i <= k /\ \A l \in i..k : IsDigit(text[l])
             IN  Some(SubSeq(text, i, j))

\* parseTimeLeft on the string, in seconds (the minutes it returns, times 60)
parseTimeLeftString(text) ==
    LET minutesMatch == matchDigitsBefore(text, "m")
        secondsMatch == matchDigitsBefore(text, "s")
        minutes == IF minutesMatch # Null THEN parseInt(minutesMatch[1]) ELSE 0
        seconds == IF secondsMatch # Null THEN parseInt(secondsMatch[1]) ELSE 0
    IN  minutes * SecondsPerMinute + seconds

\* every second of the two periods before Epoch0's and of the periods the
\* clock covers: the four quarter-hour slots, an hour's and a day's boundary
ClockInstants ==
    (Epoch0 - 2 * PeriodSeconds) .. (Epoch0 + (MaxPeriods + 1) * PeriodSeconds - 1)

\* the period starts a market is looked up by: current and next of an instant
ClockStarts ==
    { Epoch0 + p * PeriodSeconds : p \in (0 - 2) .. (MaxPeriods + 1) }

ClockInit ==
    /\ now \in ClockInstants
    /\ config = botConfig
    /\ positions = <<>>
    /\ dailyLoss = 0
    /\ consecutiveLosses = 0
    /\ dailyLossResetTime = resetDailyStats(now)
    /\ running = FALSE
    /\ currentSlug = ""
    /\ lastTradeTime = 0
    /\ stats = NoStats
    /\ creds = TRUE
    /\ pc = "clock"
    /\ order = Null
    /\ decision = Null
    /\ ledger = Null
    /\ call = Null
    /\ twin = Null
    /\ prices = <<>>
    /\ reading = Null
    /\ analysis = Null
    /\ ws = Null
    /\ reconnectAttempts = 0
    /\ timers = 0
    /\ detached = Null

\* MarketCalculator.get15MinTimestamps()
ClockTimestamps ==
    /\ call' = Some([op |-> "get15MinTimestamps", start |-> 0,
                     result |-> get15MinTimestamps(now),
                     text |-> <<>>, parsed |-> 0, minutes |-> 0])
    /\ UNCHANGED <<now, config, positions, dailyLoss, consecutiveLosses,
                   dailyLossResetTime, running, currentSlug, lastTradeTime, stats,
                   creds, pc, order, decision, ledger, twin>>
    /\ UNCHANGED feedVars

\* MarketCalculator.getTimeLeft(start), then parseTimeLeft of the string
ClockTimeLeft(start) ==
    /\ \E timeLeft \in { getTimeLeft(start, now) } :
         call' = Some([op |-> "getTimeLeft", start |-> start,
                       result |-> timeLeft,
                       text |-> timeLeftString(timeLeft),
                       parsed |-> parseTimeLeftString(timeLeftString(timeLeft)),
                       minutes |-> parseTimeLeft(timeLeft)])
    /\ UNCHANGED <<now, config, positions, dailyLoss, consecutiveLosses,
                   dailyLossResetTime, running, currentSlug, lastTradeTime, stats,
                   creds, pc, order, decision, ledger, twin>>
    /\ UNCHANGED feedVars

\* parseTimeLeft of the timeLeft of a market that was not found
ClockNotFound ==
    /\ call' = Some([op |-> "notFound", start |-> 0,
                     result |-> EmptyTimeLeft,
                     text |-> timeLeftString(EmptyTimeLeft),
                     parsed |-> parseTimeLeftString(timeLeftString(EmptyTimeLeft)),
                     minutes |-> parseTimeLeft(EmptyTimeLeft)])
    /\ UNCHANGED <<now, config, positions, dailyLoss, consecutiveLosses,
                   dailyLossResetTime, running, currentSlug, lastTradeTime, stats,
                   creds, pc, order, decision, ledger, twin>>
    /\ UNCHANGED feedVars

ClockNext ==
    \/ ClockTimestamps
    \/ \E start \in ClockStarts : ClockTimeLeft(start)
    \/ ClockNotFound

SpecClock == ClockInit /\ [][ClockNext]_vars

----------------------------------------------------------------------------
(* Claims about MarketCalculator and parseTimeLeft, checked under SpecClock *)

\* C31: for every now, get15MinTimestamps returns current and next with
\* current a multiple of 900, current <= now < current + 900 and
\* next = current + 900.
C31_TimestampsAligned ==
    (call # Null /\ call[1].op = "get15MinTimestamps") =>
        /\ call[1].result.current % PeriodSeconds = 0
        /\ call[1].result.current <= now
        /\ now < call[1].result.current + PeriodSeconds
        /\ call[1].result.next = call[1].result.current + PeriodSeconds

\* the call is made in the last second of the quarter that ends the hour
C31_Witness ==
    /\ call # Null
    /\ call[1].op = "get15MinTimestamps"
    /\ now % SecondsPerHour = SecondsPerHour - 1
    /\ call[1].result.current = now - (PeriodSeconds - 1)

\* C32: for a period starting at s and any now, getTimeLeft yields the
\* expired value when s + 900 - now <= 0 and never a negative duration;
\* parseTimeLeft of the string getTimeLeft returns is max(0, s + 900 - now)
\* seconds (that many sixtieths of a minute), and it is 0 for the expired
\* word and for the empty string of a market that was not found.
C32_TimeLeftRoundTrip ==
    /\ (call # Null /\ call[1].op = "getTimeLeft") =>
         \E secondsLeft \in { call[1].start + PeriodSeconds - now } :
            /\ (secondsLeft <= 0) <=> (call[1].result.kind = "expired")
            /\ (secondsLeft <= 0) <=> (call[1].text = ExpiredWord)
            /\ call[1].result.minutes >= 0
            /\ call[1].result.seconds >= 0
            /\ call[1].parsed = Max(0, secondsLeft)
            /\ call[1].minutes = call[1].parsed
    /\ (call # Null /\ call[1].op = "notFound") =>
            /\ call[1].text = <<>>
            /\ call[1].parsed = 0
            /\ call[1].minutes = 0

\* a string with two digits of minutes and two of seconds was parsed, and so
\* was the expired word
C32_Witness ==
    /\ call # Null
    /\ call[1].op = "getTimeLeft"
    /\ call[1].text = <<"1", "4", "m", " ", "5", "9", "s">>
    /\ call[1].parsed = 14 * SecondsPerMinute + 59

----------------------------------------------------------------------------
(* Claims about one period's orders across iterations, checked under Spec *)

\* C33: across any run of the main loop at most one MAIN bet and at most one
\* HEDGE bet are recorded for the same period slug, also when the market
\* lookup fails for a while or answers with the next period's market and then
\* returns to the original slug.
C33_OneMainOneHedgePerSlug ==
    (ledger # Null /\ ledger[1].slug # "") =>
        /\ ledger[1].main <= 1
        /\ ledger[1].hedge <= 1

----------------------------------------------------------------------------
(* ArbitrageBot.stop called as a method, at any point of start and of the   *)
(* loop, by a caller that does not end the process.  The socket is taken as *)
(* given (ws = null), so the disconnect of stop finds nothing to close.     *)

\* stop(): running = false; priceFeed.disconnect()
StopCall ==
    /\ call = Null
    /\ pc \notin {"done", "exited"}
    /\ running' = FALSE
    /\ call' = Some([op |-> "stop", during |-> pc])
    /\ UNCHANGED <<now, config, positions, dailyLoss, consecutiveLosses,
                   dailyLossResetTime, currentSlug, lastTradeTime, stats, creds, pc,
                   order, decision, ledger, twin>>
    /\ UNCHANGED feedVars

StopNext ==
    \/ Start
    \/ LoopTop
    \/ \E a \in LoopAnalysesAt(now, config) : Cycle(a)
    \/ PlaceBetReturn
    \/ PlaceBetThrow
    \/ SleepDone
    \/ Stop
    \/ StopCall

SpecStop == Init /\ [][StopNext]_vars

----------------------------------------------------------------------------
(* Claims about stop as a method, checked under SpecStop *)

\* C34: once stop() has been called, the loop begins no further iteration
\* (so no order is submitted in a later one), also when stop() was called
\* while start() was still connecting, initializing or warming up.
C34_NoIterationAfterStop ==
    [][(call # Null /\ pc = "loop") => pc' # "analyze"]_vars

----------------------------------------------------------------------------
(* BinancePriceFeed.disconnect, called at any point of the connection's     *)
(* life.  ws.close() starts the closing of the socket and this.ws = null    *)
(* forgets it; the socket keeps its handlers and delivers its close event   *)
(* later (a socket closed while still connecting reports an error first,    *)
(* which is the reject of its promise).                                     *)

\* if (this.ws)
hasSocket(socket) == socket # Null

\* disconnect()
Disconnect ==
    /\ pc = "connect"
    /\ detached = Null
    /\ IF hasSocket(ws)
       THEN /\ ws' = Null
            /\ detached' = Some([readyState |->
                                    IF ws[1].readyState = "closed" THEN "closed"
                                    ELSE "closing",
                                 was |-> ws[1].readyState,
                                 promise |-> ws[1].promise,
                                 awaited |-> ws[1].awaited])
       ELSE /\ ws' = ws
            /\ detached' = Some([readyState |-> "closed", was |-> "none",
                                 promise |-> "none", awaited |-> FALSE])
    /\ call' = Connection("disconnect", call[1].closes, call[1].reconnects)
    /\ UNCHANGED <<now, config, positions, dailyLoss, consecutiveLosses,
                   dailyLossResetTime, running, currentSlug, lastTradeTime, stats,
                   creds, pc, order, decision, ledger, twin, prices, reading,
                   analysis, reconnectAttempts, timers>>

\* ws.on("close") of the socket disconnect closed, after ws.on("error") where
\* the socket was still connecting
DetachedClose(fatal) ==
    /\ pc = "connect"
    /\ detached # Null
    /\ detached[1].readyState = "closing"
    /\ detached' = Some([detached[1] EXCEPT !.readyState = "closed"])
    /\ LET rejects == detached[1].was = "connecting" /\ detached[1].promise = "pending"
       IN  pc' = IF rejects /\ (detached[1].awaited \/ fatal) THEN "exited" ELSE pc
    /\ IF mayReconnect(reconnectAttempts)
       THEN /\ reconnectAttempts' = reconnectAttempts + 1
            /\ timers' = timers + 1
       ELSE UNCHANGED <<reconnectAttempts, timers>>
    /\ call' = Connection("close", call[1].closes + 1, call[1].reconnects)
    /\ UNCHANGED <<now, config, positions, dailyLoss, consecutiveLosses,
                   dailyLossResetTime, running, currentSlug, lastTradeTime, stats,
                   creds, order, decision, ledger, twin, prices, reading, analysis, ws>>

DisconnectNext ==
    \/ ConnectNext
    \/ Disconnect
    \/ \E fatal \in BOOLEAN : DetachedClose(fatal)

SpecDisconnect == ConnectInit /\ [][DisconnectNext]_vars

----------------------------------------------------------------------------
(* Claims about disconnect, checked under SpecDisconnect *)

\* C35: after disconnect() was called on the feed, the feed creates no new
\* WebSocket (short of a new call of connect by start) and no observation is
\* appended to the price window.
C35_QuietAfterDisconnect ==
    [][(detached # Null /\ call'[1].op # "connect") =>
          /\ (ws' = ws \/ ws' = Null \/ ws'[1].readyState # "connecting")
          /\ prices' = prices]_vars

----------------------------------------------------------------------------
(* Claims about the risk counters in the running bot, checked under Spec *)

\* C36: in every state the bot reaches through analyze, evaluateTrade,
\* recordBet, cleanupOldPositions and the resets at a day's boundary,
\* dailyLoss = 0 and consecutiveLosses = 0; with maxDailyLoss > 0 and
\* maxConsecutiveLosses > 0 evaluateTrade therefore never answers with the
\* SKIP of either breaker.
C36_BreakersNeverTrip ==
    /\ dailyLoss = 0
    /\ consecutiveLosses = 0
    /\ (config.maxDailyLoss > 0 /\ config.maxConsecutiveLosses > 0 /\ decision # Null) =>
          decision[1].reason \notin {"daily loss limit", "consecutive losses limit"}

\* a decision was made after bets were recorded and the day's reset was passed
C36_Witness ==
    /\ decision # Null
    /\ stats.mainBets > 0
    /\ dailyLossResetTime > resetDailyStats(Epoch0)
    /\ config.maxDailyLoss > 0
    /\ config.maxConsecutiveLosses > 0

----------------------------------------------------------------------------
(* Claims about the cooldown between orders, checked under Spec *)

\* the cycle that has just read the clock is within the cooldown of the last
\* completed submission
WithinCooldown ==
    /\ pc = "analyze"
    /\ lastTradeTime > 0
    /\ now < lastTradeTime + config.cooldownSeconds

----------------------------------------------------------------------------
(* Claims about evaluateTrade's effect on the position map, checked under   *)
(* SpecUnit                                                                 *)

\* C38: evaluateTrade changes no existing Position (mainBet, hedgeBet and
\* totalBets of every Position stay as they were); all it does to the map is
\* to insert {mainBet: null, hedgeBet: null, totalBets: 0} under the analysed
\* slug when there is none and neither breaker applies; a breaker's SKIP
\* inserts nothing.
C38_EvaluateTradeOnlyInserts ==
    [][EvaluateStep =>
        LET slug == call'[1].slug
            breaker == \/ dailyLoss' >= config.maxDailyLoss
                       \/ consecutiveLosses' >= config.maxConsecutiveLosses
        IN  /\ \A s \in DOMAIN positions :
                  s \in DOMAIN positions' /\ positions'[s] = positions[s]
            /\ DOMAIN positions' \subseteq (DOMAIN positions \cup {slug})
            /\ (slug \notin DOMAIN positions /\ breaker) => slug \notin DOMAIN positions'
            /\ (slug \notin DOMAIN positions /\ ~breaker) =>
                  /\ slug \in DOMAIN positions'
                  /\ positions'[slug] = [slug |-> slug, mainBet |-> Null,
                                         hedgeBet |-> Null, totalBets |-> 0]]_vars

\* evaluateTrade has just created the Position of a second slug beside one
\* that holds a bet
C38_Witness ==
    /\ Evaluated
    /\ call[1].slug \in DOMAIN positions
    /\ positions[call[1].slug].totalBets = 0
    /\ \E s \in DOMAIN positions : s # call[1].slug /\ positions[s].mainBet # Null

----------------------------------------------------------------------------
(* Claims about direction and confidence in analyze, checked under          *)
(* SpecAnalyze                                                              *)

\* C39: in every result of analyze a direction other than NEUTRAL comes with
\* confidence >= 0.3, and the NEUTRAL direction with confidence <= 0.1,
\* realProbability = 0.5, edge = 0 and shouldTrade = false; the reason of a
\* confidence that is too low is therefore never given.
C39_DirectionBoundsConfidence ==
    analysis # Null =>
        \E r \in { analysis[1].result } :
            /\ r.direction # "NEUTRAL" => r.confidence >= MomentumConfidence
            /\ r.direction = "NEUTRAL" =>
                  /\ r.confidence <= VolatilityConfidence
                  /\ r.realProbability = BaseProbability
                  /\ r.edge = 0
                  /\ ~r.shouldTrade
            /\ r.reason # "low confidence"

\* a direction against the venue's bias and without a strong trend: the
\* confidence is the 0.3 of the momentum alone
C39_Witness ==
    /\ analysis # Null
    /\ analysis[1].result.direction = "UP"
    /\ analysis[1].result.marketPrices.marketBias = "DOWN"
    /\ analysis[1].result.confidence = MinConfidence
    /\ analysis[1].result.marketPrices.found

----------------------------------------------------------------------------
(* The main loop with real orders, the MarketPrices of each cycle kept in   *)
(* call, quotes up to 0.97 and a hedge threshold that lets a hedge be       *)
(* bought at such a price, so that the cap of the order's price is reached. *)

OrderQuotes == { <<80, 20>>, <<20, 80>>, <<3, 97>>, <<6, 94>> }

\* <<noTradeLastMinutes, hedgePriceThreshold>>
OrderModes == { <<NoTradeLastMinutes, HedgePriceThreshold>>, <<0, HedgePriceThreshold>>,
                <<NoTradeLastMinutes, 100>> }

OrderConfigs ==
    { [botConfig EXCEPT !.simulationMode = FALSE, !.noTradeLastMinutes = m[1],
                        !.hedgePriceThreshold = m[2]] : m \in OrderModes }

OrderAnalysesAt(t, cfg) ==
    { analyze(f, getMarketPrices(getCurrentMarket(l, q, k, t), t), cfg) :
        f \in LoopReadings, l \in Lookups, q \in OrderQuotes, k \in BOOLEAN }

OrderInit ==
    /\ now = Epoch0
    /\ config \in OrderConfigs
    /\ positions = <<>>
    /\ dailyLoss = 0
    /\ consecutiveLosses = 0
    /\ dailyLossResetTime = resetDailyStats(now)
    /\ running = FALSE
    /\ currentSlug = ""
    /\ lastTradeTime = 0
    /\ stats = NoStats
    /\ creds = TRUE
    /\ pc = "start"
    /\ order = Null
    /\ decision = Null
    /\ ledger = Null
    /\ call = Null
    /\ twin = Null
    /\ prices = <<>>
    /\ reading = Null
    /\ analysis = Null
    /\ ws = Null
    /\ reconnectAttempts = 0
    /\ timers = 0
    /\ detached = Null

\* One iteration of mainLoop, with the MarketPrices it analysed remembered.
OrderCycle(a) ==
    /\ CycleBody(a)
    /\ call' = Some([op |-> "cycle", marketPrices |-> a.marketPrices])

OrderNext ==
    \/ Start
    \/ LoopTop
    \/ \E a \in OrderAnalysesAt(now, config) : OrderCycle(a)
    \/ PlaceBetReturn
    \/ PlaceBetThrow
    \/ SleepDone
    \/ Stop

SpecOrder == OrderInit /\ [][OrderNext]_vars

----------------------------------------------------------------------------
(* Claims about the order handed to placeBet, checked under SpecOrder *)

\* C40: every order the main loop submits is a BUY of the token of the decided
\* direction at min(quoted price of that direction + 0.01, 0.95), so never
\* above 0.95, while recordBet stored the quoted price itself in the Position;
\* no order is submitted when the token of that direction is empty.
C40_OrderPriceCapped ==
    /\ order # Null =>
         \E mp \in { call[1].marketPrices }, d \in { decision[1] } :
           \E quoted \in { IF d.direction = "UP" THEN mp.upPrice ELSE mp.downPrice },
              token \in { IF d.direction = "UP" THEN mp.upTokenId ELSE mp.downTokenId },
              slot \in { IF d.type = "MAIN" THEN positions[mp.slug].mainBet
                         ELSE positions[mp.slug].hedgeBet } :
                /\ order[1].side = "BUY"
                /\ order[1].tokenId = token
                /\ token # ""
                /\ order[1].price = (IF quoted + 1 < 95 THEN quoted + 1 ELSE 95)
                /\ order[1].price <= 95
                /\ order[1].size = d.size
                /\ slot # Null
                /\ slot[1].price = quoted
                /\ slot[1].direction = d.direction
    /\ (pc \in {"sleep", "placeBet"} /\ call # Null /\ decision # Null
          /\ decision[1].action = "BET"
          /\ (IF decision[1].direction = "UP" THEN call[1].marketPrices.upTokenId
              ELSE call[1].marketPrices.downTokenId) = "")
         => (order = Null /\ pc = "sleep")

\* an order at the cap: the quoted price of 0.97 was recorded, 0.95 is ordered
C40_Witness ==
    /\ order # Null
    /\ order[1].price = 95
    /\ decision[1].type = "HEDGE"
    /\ positions[call[1].marketPrices.slug].hedgeBet[1].price = 97

====
